---- MODULE Spec2Model ----
(***************************************************************************)
(* Coffee-shop API (dist/index.js, second bundle, lines 644-1942): the     *)
(* menu_items, daily_special and store_hours tables and the route handlers *)
(* that read and write them.  Every handler runs to completion             *)
(* (better-sqlite3 is synchronous), so one action is one request.          *)
(***************************************************************************)
EXTENDS Integers, Sequences, FiniteSets, TLC

\* ------------------------------------------------------------------ bounds
MaxMenuId == 2       \* menu_items rows ever inserted
MaxSpecialId == 2    \* daily_special rows ever inserted
MaxTime == 1         \* last value of the clock

\* ------------------------------------------------------- program constants
NameMin == 2
NameMax == 100
DescMin == 10
DescMax == 500
PriceMax == 99999    \* 999.99, in cents
NULL == -1           \* SQL NULL in a nullable timestamp column

\* ------------------------------------------------------------------ strings
\* A string is a sequence of one-character strings.
LowerChar(c) ==
  CASE c = "A" -> "a"
    [] c = "L" -> "l"
    [] c = "M" -> "m"
    [] c = "O" -> "o"
    [] OTHER -> c

\* a comparison that keeps the case of the letters
Lower_Identity(s) == s

\* SQLite LOWER(): ASCII letters to lower case, character by character.
Lower(s) == [i \in 1..Len(s) |-> LowerChar(s[i])]

IsSpace(c) == c = " "

RECURSIVE TrimStart(_)
TrimStart(s) == IF s # <<>> /\ IsSpace(Head(s)) THEN TrimStart(Tail(s)) ELSE s

RECURSIVE TrimEnd(_)
TrimEnd(s) ==
  IF s # <<>> /\ IsSpace(s[Len(s)]) THEN TrimEnd(SubSeq(s, 1, Len(s) - 1)) ELSE s

\* String.prototype.trim
Trim(s) == TrimEnd(TrimStart(s))

IsDigit(c) == c \in {"0", "1", "2", "3", "4", "5", "6", "7", "8", "9"}

DigitVal(c) ==
  CASE c = "0" -> 0 [] c = "1" -> 1 [] c = "2" -> 2 [] c = "3" -> 3
    [] c = "4" -> 4 [] c = "5" -> 5 [] c = "6" -> 6 [] c = "7" -> 7
    [] c = "8" -> 8 [] c = "9" -> 9

RECURSIVE ParseInt(_)
ParseInt(s) ==
  IF s = <<>> THEN 0
  ELSE 10 * ParseInt(SubSeq(s, 1, Len(s) - 1)) + DigitVal(s[Len(s)])

\* intValueSchema: /^\d+$/
IntValueOk(s) == s # <<>> /\ \A i \in 1..Len(s) : IsDigit(s[i])

\* nameSchema(): min, max on the raw string, then trim, then refine
NameOk(raw) ==
  /\ Len(raw) >= NameMin
  /\ Len(raw) <= NameMax
  /\ Len(Trim(raw)) >= NameMin

\* descriptionSchema()
DescriptionOk(raw) ==
  /\ Len(raw) >= DescMin
  /\ Len(raw) <= DescMax
  /\ Len(Trim(raw)) >= DescMin

\* priceSchema(): positive, at most 999.99
PriceOk(p) == p > 0 /\ p <= PriceMax

\* ------------------------------------------------------------------- state
VARIABLES
  menuItems,    \* the rows of table menu_items
  menuSeq,      \* sqlite_sequence of menu_items (AUTOINCREMENT)
  special,      \* the rows of table daily_special
  specialSeq,   \* sqlite_sequence of daily_special
  hours,        \* the rows of table store_hours
  now,          \* new Date(), in seconds
  response,     \* the response to the last request
  trip          \* history: how far the last created menu item is on the way
                \* create, soft delete, restore, and the row as it was created
                \* (in other specifications: what was there before the
                \* request, or the value the client sends)

vars == <<menuItems, menuSeq, special, specialSeq, hours, now, response, trip>>

\* a filter that lets soft-deleted rows through
notDeleted_All(r) == TRUE

\* isNull(menuItems.deletedAt)
notDeleted(r) == r.deletedAt = NULL

\* .get(): the first row of the result, in rowid order
First(rows) == CHOOSE r \in rows : \A q \in rows : r.id <= q.id

\* a request: the route, its :id (or other) path parameter and its JSON body
NoParam == <<>>
NoBody == <<>>
Request(op, param, body) == [op |-> op, param |-> param, body |-> body]

\* res.status(status).json(body), kept with the request it answers
Reply(req, status, body) == [req |-> req, status |-> status, body |-> body]

\* the JSON of a response: { error }, { error, message }, the rows it
\* carries, or { message, <row> } (the details of a validation failure are
\* left out)
Failure(error) == [error |-> error, message |-> "", items |-> {}]
Refusal(error, message) == [error |-> error, message |-> message, items |-> {}]
Rows(rows) == [error |-> "", message |-> "", items |-> rows]
Row(r) == Rows({r})
Done(message, r) == [error |-> "", message |-> message, items |-> {r}]

Init ==
  /\ menuItems = {}
  /\ menuSeq = 0
  /\ special = {}
  /\ specialSeq = 0
  /\ hours = {}
  /\ now = 0
  /\ response = Reply(Request("none", NoParam, NoBody), 0, Rows({}))
  /\ trip = [stage |-> "none", snap |-> {}]

\* the clock of new Date() advances between requests
Tick ==
  /\ now < MaxTime
  /\ now' = now + 1
  /\ UNCHANGED <<menuItems, menuSeq, special, specialSeq, hours, response>>

\* ------------------------------------------------------------------ inputs
D1 == <<"e", "s", "p", "r", "e", "s", "s", "o", " ", "1">>
D2 == <<" ", "e", "s", "p", "r", "e", "s", "s", "o", " ", "2", " ">>
DShort == <<"t", "o", "o", " ", "s", "h", "o", "r", "t">>

\* names: three that are stored as written, one that is stored trimmed, one
\* that is too short once trimmed
GoodNames == {<<"L", "a">>, <<"L", "A">>, <<"M", "o">>}
PaddedName == <<" ", "M", "o", " ">>
BadName == <<" ", "L">>
RawNames == GoodNames \cup {PaddedName, BadName}

\* price (in cents) and description, as they are sent together
GoodDetails == {[price |-> 250, description |-> D1],
                [price |-> 400, description |-> D2]}

WithName(n, d) == [name |-> n, price |-> d.price, description |-> d.description]

CreateBodies ==
  {WithName(n, d) : n \in GoodNames, d \in GoodDetails}
    \cup {WithName(PaddedName, [price |-> 250, description |-> D1]),
          WithName(BadName, [price |-> 250, description |-> D1]),
          WithName(<<"M", "o">>, [price |-> 0, description |-> D1]),
          WithName(<<"M", "o">>, [price |-> 250, description |-> DShort]),
          [name |-> <<"M", "o">>, price |-> 250]}

UpdateBodies ==
  {<<>>} \cup [name : GoodNames \cup {BadName}] \cup GoodDetails
    \cup {[price |-> 0], [name |-> <<"L", "A">>, price |-> 400, description |-> D2]}

IdStr(n) == <<CHOOSE c \in {"0", "1", "2", "3", "4", "5", "6", "7", "8", "9"} : DigitVal(c) = n>>

MenuIdParams == {IdStr(n) : n \in 1..MaxMenuId} \cup {<<"a", "b", "c">>}

\* whole-dollar amounts, as they appear in the path
MaxPriceParams == {<<"3">>, <<"4">>, <<"0">>}

\* ------------------------------------------------------------ menu: reads
ValidationFailed == Failure("Validation failed")

\* GET /menu
GetMenu ==
  /\ response' = Reply(Request("GET /menu", NoParam, NoBody), 200,
                       Rows({r \in menuItems : notDeleted(r)}))
  /\ UNCHANGED <<menuItems, menuSeq, special, specialSeq, hours, now>>

\* GET /menu/:id
GetMenuById(idParam) ==
  LET op == Request("GET /menu/:id", idParam, NoBody)
      id == ParseInt(idParam)
      item == {r \in menuItems : r.id = id /\ notDeleted(r)}
  IN /\ response' =
          IF ~IntValueOk(idParam) THEN Reply(op, 400, ValidationFailed)
          ELSE IF item = {} THEN Reply(op, 404, Failure("Item not found"))
          ELSE Reply(op, 200, Row(First(item)))
     /\ UNCHANGED <<menuItems, menuSeq, special, specialSeq, hours, now>>

\* `${item.name} - ${item.description}. Only $${formattedPrice}!`
RECURSIVE IntToString(_)
IntToString(n) ==
  IF n < 10 THEN IdStr(n) ELSE IntToString(n \div 10) \o IdStr(n % 10)

\* price.toFixed(2), the price being kept in cents
ToFixed2(p) ==
  IntToString(p \div 100) \o <<".">> \o IdStr((p % 100) \div 10) \o IdStr(p % 10)

FormattedDescription(item) ==
  item.name \o <<" ", "-", " ">> \o item.description
    \o <<".", " ", "O", "n", "l", "y", " ", "$">> \o ToFixed2(item.price) \o <<"!">>

\* GET /menu/:id/description
GetMenuDescription(idParam) ==
  LET op == Request("GET /menu/:id/description", idParam, NoBody)
      id == ParseInt(idParam)
      item == {r \in menuItems : r.id = id /\ notDeleted(r)}
  IN /\ response' =
          IF ~IntValueOk(idParam) THEN Reply(op, 400, ValidationFailed)
          ELSE IF item = {} THEN Reply(op, 404, Failure("Item not found"))
          ELSE Reply(op, 200, Row([description |-> FormattedDescription(First(item))]))
     /\ UNCHANGED <<menuItems, menuSeq, special, specialSeq, hours, now>>

\* GET /menu/name/:coffeeName
GetMenuByName(coffeeName) ==
  LET op == Request("GET /menu/name/:coffeeName", coffeeName, NoBody)
      items == {r \in menuItems :
                  Lower(r.name) = Lower(Trim(coffeeName)) /\ notDeleted(r)}
  IN /\ response' =
          IF ~NameOk(coffeeName) THEN Reply(op, 400, ValidationFailed)
          ELSE IF items = {} THEN Reply(op, 404, Failure("Item not found"))
          ELSE Reply(op, 200, Row(First(items)))
     /\ UNCHANGED <<menuItems, menuSeq, special, specialSeq, hours, now>>

\* floatValueSchema: /^\d+(\.\d+)?$/, parseFloat, positive
FloatValueOk(s) == IntValueOk(s) /\ ParseInt(s) > 0

\* GET /menu/price/:maxPrice
GetMenuByPrice(maxPriceParam) ==
  LET op == Request("GET /menu/price/:maxPrice", maxPriceParam, NoBody)
      maxPrice == 100 * ParseInt(maxPriceParam)
  IN /\ response' =
          IF ~FloatValueOk(maxPriceParam) THEN Reply(op, 400, ValidationFailed)
          ELSE Reply(op, 200,
                     Rows({r \in menuItems : r.price <= maxPrice /\ notDeleted(r)}))
     /\ UNCHANGED <<menuItems, menuSeq, special, specialSeq, hours, now>>

\* isNull instead of isNotNull in the hard-delete query
SoftDeletedById_Active(rows, id) == {r \in rows : r.id = id /\ r.deletedAt = NULL}

\* eq(id) alone in the hard-delete query
SoftDeletedById_Any(rows, id) == {r \in rows : r.id = id}

\* and(eq(id), isNotNull(deletedAt)): the row a hard delete may remove
SoftDeletedById(rows, id) == {r \in rows : r.id = id /\ r.deletedAt # NULL}

\* ----------------------------------------------------------- menu: writes
\* result.data of createMenuItemSchema / updateMenuItemSchema: the supplied
\* fields, strings trimmed
ParsedFields(body) ==
  [f \in DOMAIN body |->
     IF f \in {"name", "description"} THEN Trim(body[f]) ELSE body[f]]

FieldOk(body, f) ==
  CASE f = "name" -> NameOk(body[f])
    [] f = "price" -> PriceOk(body[f])
    [] f = "description" -> DescriptionOk(body[f])
    [] OTHER -> TRUE

\* createMenuItemSchema
CreateMenuItemOk(body) ==
  /\ {"name", "price", "description"} \subseteq DOMAIN body
  /\ \A f \in DOMAIN body : FieldOk(body, f)

\* updateMenuItemSchema
UpdateMenuItemOk(body) ==
  /\ \A f \in DOMAIN body : FieldOk(body, f)
  /\ DOMAIN body # {}

\* a .set() that stamps createdAt whenever it stamps updatedAt
SetFields_Stamp(row, values) ==
  [f \in DOMAIN row |->
     IF f \in DOMAIN values THEN values[f]
     ELSE IF f = "createdAt" /\ "updatedAt" \in DOMAIN values THEN values.updatedAt
     ELSE row[f]]

\* .set({...}): the row with the given columns overwritten
SetFields(row, values) ==
  [f \in DOMAIN row |-> IF f \in DOMAIN values THEN values[f] ELSE row[f]]

\* a table without the unique index on name
UniqueConstraintViolated_Never(id, name) == FALSE

\* CREATE UNIQUE INDEX menu_items_name_unique: would row `id` holding `name`
\* collide with another row (deleted or not)?
UniqueConstraintViolated(id, name) ==
  \E r \in menuItems : r.id # id /\ r.name = name

\* a create on a table without AUTOINCREMENT: the id after the largest id
\* that is in the table
PostMenu_ReusesId(body) ==
  LET op == Request("POST /menu", NoParam, body)
      data == ParsedFields(body)
      existingItems == {r \in menuItems :
                          Lower(r.name) = Lower(Trim(data.name)) /\ notDeleted(r)}
      id == IF menuItems = {} THEN 1
            ELSE (CHOOSE r \in menuItems : \A q \in menuItems : q.id <= r.id).id + 1
      row == [id |-> id, name |-> Trim(data.name), price |-> data.price,
              description |-> Trim(data.description),
              createdAt |-> now, updatedAt |-> now, deletedAt |-> NULL]
      newItem == First({r \in menuItems \cup {row} : r.name = Trim(data.name)})
  IN IF ~CreateMenuItemOk(body)
       THEN /\ response' = Reply(op, 400, ValidationFailed)
            /\ UNCHANGED <<menuItems, menuSeq, special, specialSeq, hours, now>>
     ELSE IF existingItems # {} \/ UniqueConstraintViolated(id, row.name)
       THEN /\ response' = Reply(op, 409, Failure("Coffee with this name already exists"))
            /\ UNCHANGED <<menuItems, menuSeq, special, specialSeq, hours, now>>
     ELSE /\ menuSeq < MaxMenuId
          /\ menuItems' = menuItems \cup {row}
          /\ menuSeq' = menuSeq + 1
          /\ response' = Reply(op, 201, Row(newItem))
          /\ UNCHANGED <<special, specialSeq, hours, now>>

\* POST /menu
PostMenu(body) ==
  LET op == Request("POST /menu", NoParam, body)
      data == ParsedFields(body)
      existingItems == {r \in menuItems :
                          Lower(r.name) = Lower(Trim(data.name)) /\ notDeleted(r)}
      id == menuSeq + 1
      row == [id |-> id, name |-> Trim(data.name), price |-> data.price,
              description |-> Trim(data.description),
              createdAt |-> now, updatedAt |-> now, deletedAt |-> NULL]
      newItem == First({r \in menuItems \cup {row} : r.name = Trim(data.name)})
  IN IF ~CreateMenuItemOk(body)
       THEN /\ response' = Reply(op, 400, ValidationFailed)
            /\ UNCHANGED <<menuItems, menuSeq, special, specialSeq, hours, now>>
     ELSE IF existingItems # {} \/ UniqueConstraintViolated(id, row.name)
       THEN /\ response' = Reply(op, 409, Failure("Coffee with this name already exists"))
            /\ UNCHANGED <<menuItems, menuSeq, special, specialSeq, hours, now>>
     ELSE /\ menuSeq < MaxMenuId
          /\ menuItems' = menuItems \cup {row}
          /\ menuSeq' = id
          /\ response' = Reply(op, 201, Row(newItem))
          /\ UNCHANGED <<special, specialSeq, hours, now>>

\* an update whose duplicate check does not exclude the item itself
PatchMenu_SelfConflict(idParam, body) ==
  LET op == Request("PATCH /menu/:id", idParam, body)
      id == ParseInt(idParam)
      updates == ParsedFields(body)
      existingItem == {r \in menuItems : r.id = id /\ notDeleted(r)}
      duplicate == {r \in menuItems :
                      /\ Lower(r.name) = Lower(Trim(updates.name))
                      /\ notDeleted(r)}
      updated == {IF r.id = id
                    THEN SetFields(r, updates @@ [updatedAt |-> now])
                    ELSE r : r \in menuItems}
      updatedItem == {r \in updated : r.id = id /\ notDeleted(r)}
  IN /\ response' =
          IF ~IntValueOk(idParam) \/ ~UpdateMenuItemOk(body)
            THEN Reply(op, 400, ValidationFailed)
          ELSE IF existingItem = {} THEN Reply(op, 404, Failure("Item not found"))
          ELSE IF "name" \in DOMAIN updates /\ duplicate # {}
            THEN Reply(op, 409, Failure("Coffee with this name already exists"))
          ELSE IF "name" \in DOMAIN updates
                  /\ UniqueConstraintViolated(id, updates.name)
            THEN Reply(op, 409, Failure("Coffee with this name already exists"))
          ELSE Reply(op, 200, Row(First(updatedItem)))
     /\ menuItems' = IF response'.status = 200 THEN updated ELSE menuItems
     /\ UNCHANGED <<menuSeq, special, specialSeq, hours, now>>

\* PATCH /menu/:id
PatchMenu(idParam, body) ==
  LET op == Request("PATCH /menu/:id", idParam, body)
      id == ParseInt(idParam)
      updates == ParsedFields(body)
      existingItem == {r \in menuItems : r.id = id /\ notDeleted(r)}
      duplicate == {r \in menuItems :
                      /\ Lower(r.name) = Lower(Trim(updates.name))
                      /\ r.id # id
                      /\ notDeleted(r)}
      updated == {IF r.id = id
                    THEN SetFields(r, updates @@ [updatedAt |-> now])
                    ELSE r : r \in menuItems}
      updatedItem == {r \in updated : r.id = id /\ notDeleted(r)}
  IN /\ response' =
          IF ~IntValueOk(idParam) \/ ~UpdateMenuItemOk(body)
            THEN Reply(op, 400, ValidationFailed)
          ELSE IF existingItem = {} THEN Reply(op, 404, Failure("Item not found"))
          ELSE IF "name" \in DOMAIN updates /\ duplicate # {}
            THEN Reply(op, 409, Failure("Coffee with this name already exists"))
          ELSE IF "name" \in DOMAIN updates
                  /\ UniqueConstraintViolated(id, updates.name)
            THEN Reply(op, 409, Failure("Coffee with this name already exists"))
          ELSE Reply(op, 200, Row(First(updatedItem)))
     /\ menuItems' = IF response'.status = 200 THEN updated ELSE menuItems
     /\ UNCHANGED <<menuSeq, special, specialSeq, hours, now>>

\* DELETE /menu/:id
DeleteMenu(idParam) ==
  LET op == Request("DELETE /menu/:id", idParam, NoBody)
      id == ParseInt(idParam)
      existingItem == {r \in menuItems : r.id = id /\ notDeleted(r)}
      updated == {IF r.id = id
                    THEN SetFields(r, [deletedAt |-> now, updatedAt |-> now])
                    ELSE r : r \in menuItems}
      deletedItem == {r \in updated : r.id = id}
  IN /\ response' =
          IF ~IntValueOk(idParam) THEN Reply(op, 400, ValidationFailed)
          ELSE IF existingItem = {} THEN Reply(op, 404, Failure("Item not found"))
          ELSE Reply(op, 200, Done("Item soft-deleted successfully", First(deletedItem)))
     /\ menuItems' = IF response'.status = 200 THEN updated ELSE menuItems
     /\ UNCHANGED <<menuSeq, special, specialSeq, hours, now>>

\* DELETE /menu/:id/hard-delete
HardDeleteMenu(idParam) ==
  LET op == Request("DELETE /menu/:id/hard-delete", idParam, NoBody)
      id == ParseInt(idParam)
      existingItem == SoftDeletedById(menuItems, id)
      anyItem == {r \in menuItems : r.id = id}
  IN /\ response' =
          IF ~IntValueOk(idParam) THEN Reply(op, 400, ValidationFailed)
          ELSE IF existingItem = {}
            THEN IF anyItem = {} THEN Reply(op, 404, Failure("Item not found"))
                 ELSE Reply(op, 400, Refusal("Cannot hard delete active item",
                                         "Item must be soft-deleted first"))
          ELSE Reply(op, 200, Done("Item deleted successfully", First(existingItem)))
     /\ menuItems' = IF response'.status = 200
                       THEN {r \in menuItems : r.id # id}
                       ELSE menuItems
     /\ UNCHANGED <<menuSeq, special, specialSeq, hours, now>>

\* a restore that also resets createdAt
RestoreMenu_Touch(idParam) ==
  LET op == Request("POST /menu/:id/restore", idParam, NoBody)
      id == ParseInt(idParam)
      deletedItem == {r \in menuItems : r.id = id}
      updated == {IF r.id = id
                    THEN SetFields(r, [deletedAt |-> NULL, updatedAt |-> now,
                                       createdAt |-> now])
                    ELSE r : r \in menuItems}
      restoredItem == {r \in updated : r.id = id /\ notDeleted(r)}
  IN /\ response' =
          IF ~IntValueOk(idParam) THEN Reply(op, 400, ValidationFailed)
          ELSE IF deletedItem = {} THEN Reply(op, 404, Failure("Item not found"))
          ELSE IF First(deletedItem).deletedAt = NULL
            THEN Reply(op, 400,
                       Refusal("Item is not deleted",
                               "This item is already active and does not need to be restored"))
          ELSE Reply(op, 200, Done("Item restored successfully", First(restoredItem)))
     /\ menuItems' = IF response'.status = 200 THEN updated ELSE menuItems
     /\ UNCHANGED <<menuSeq, special, specialSeq, hours, now>>

\* a restore without the "Item is not deleted" check
RestoreMenu_NoCheck(idParam) ==
  LET op == Request("POST /menu/:id/restore", idParam, NoBody)
      id == ParseInt(idParam)
      deletedItem == {r \in menuItems : r.id = id}
      updated == {IF r.id = id
                    THEN SetFields(r, [deletedAt |-> NULL, updatedAt |-> now])
                    ELSE r : r \in menuItems}
      restoredItem == {r \in updated : r.id = id /\ notDeleted(r)}
  IN /\ response' =
          IF ~IntValueOk(idParam) THEN Reply(op, 400, ValidationFailed)
          ELSE IF deletedItem = {} THEN Reply(op, 404, Failure("Item not found"))
          ELSE Reply(op, 200, Done("Item restored successfully", First(restoredItem)))
     /\ menuItems' = IF response'.status = 200 THEN updated ELSE menuItems
     /\ UNCHANGED <<menuSeq, special, specialSeq, hours, now>>

\* a restore that refuses an item whose name an active item has taken
RestoreMenu_NameCheck(idParam) ==
  LET op == Request("POST /menu/:id/restore", idParam, NoBody)
      id == ParseInt(idParam)
      deletedItem == {r \in menuItems : r.id = id}
      taken == {r \in menuItems :
                  /\ r.id # id
                  /\ notDeleted(r)
                  /\ Lower(r.name) = Lower(First(deletedItem).name)}
      updated == {IF r.id = id
                    THEN SetFields(r, [deletedAt |-> NULL, updatedAt |-> now])
                    ELSE r : r \in menuItems}
      restoredItem == {r \in updated : r.id = id /\ notDeleted(r)}
  IN /\ response' =
          IF ~IntValueOk(idParam) THEN Reply(op, 400, ValidationFailed)
          ELSE IF deletedItem = {} THEN Reply(op, 404, Failure("Item not found"))
          ELSE IF First(deletedItem).deletedAt = NULL
            THEN Reply(op, 400,
                       Refusal("Item is not deleted",
                               "This item is already active and does not need to be restored"))
          ELSE IF taken # {}
            THEN Reply(op, 409, Failure("Coffee with this name already exists"))
          ELSE Reply(op, 200, Done("Item restored successfully", First(restoredItem)))
     /\ menuItems' = IF response'.status = 200 THEN updated ELSE menuItems
     /\ UNCHANGED <<menuSeq, special, specialSeq, hours, now>>

\* POST /menu/:id/restore
RestoreMenu(idParam) ==
  LET op == Request("POST /menu/:id/restore", idParam, NoBody)
      id == ParseInt(idParam)
      deletedItem == {r \in menuItems : r.id = id}
      updated == {IF r.id = id
                    THEN SetFields(r, [deletedAt |-> NULL, updatedAt |-> now])
                    ELSE r : r \in menuItems}
      restoredItem == {r \in updated : r.id = id /\ notDeleted(r)}
  IN /\ response' =
          IF ~IntValueOk(idParam) THEN Reply(op, 400, ValidationFailed)
          ELSE IF deletedItem = {} THEN Reply(op, 404, Failure("Item not found"))
          ELSE IF First(deletedItem).deletedAt = NULL
            THEN Reply(op, 400,
                       Refusal("Item is not deleted",
                               "This item is already active and does not need to be restored"))
          ELSE Reply(op, 200, Done("Item restored successfully", First(restoredItem)))
     /\ menuItems' = IF response'.status = 200 THEN updated ELSE menuItems
     /\ UNCHANGED <<menuSeq, special, specialSeq, hours, now>>

\* A history variable follows the requests without being read by them: every
\* step below leaves it alone, except in NextMenuTrip, which records in it.
NextMenu ==
  \/ Tick /\ UNCHANGED trip
  \/ GetMenu /\ UNCHANGED trip
  \/ \E p \in MenuIdParams : GetMenuById(p) /\ UNCHANGED trip
  \/ \E p \in MenuIdParams : GetMenuDescription(p) /\ UNCHANGED trip
  \/ \E n \in RawNames : GetMenuByName(n) /\ UNCHANGED trip
  \/ \E p \in MaxPriceParams : GetMenuByPrice(p) /\ UNCHANGED trip
  \/ \E b \in CreateBodies : PostMenu(b) /\ UNCHANGED trip
  \/ \E p \in MenuIdParams, b \in UpdateBodies : PatchMenu(p, b) /\ UNCHANGED trip
  \/ \E p \in MenuIdParams : DeleteMenu(p) /\ UNCHANGED trip
  \/ \E p \in MenuIdParams : HardDeleteMenu(p) /\ UNCHANGED trip
  \/ \E p \in MenuIdParams : RestoreMenu(p) /\ UNCHANGED trip

SpecMenu == Init /\ [][NextMenu]_vars

\* The history of the last created menu item: POST /menu (201) starts it with
\* the row as inserted, DELETE /menu/:id (200) of that row and then
\* POST /menu/:id/restore (200) of that row advance it, and any other
\* successful write ends it. Reads, refused requests and the clock leave it.
MenuWrites == {"POST /menu", "PATCH /menu/:id", "DELETE /menu/:id",
               "DELETE /menu/:id/hard-delete", "POST /menu/:id/restore"}

TripStep ==
  LET op == response'.req.op
      ok == response'.status \in {200, 201}
      id == ParseInt(response'.req.param)
      mine == id \in {r.id : r \in trip.snap}
  IN trip' =
       IF now' # now \/ ~ok \/ op \notin MenuWrites THEN trip
       ELSE IF op = "POST /menu"
         THEN [stage |-> "created", snap |-> {r \in menuItems' : r.id = menuSeq'}]
       ELSE IF op = "DELETE /menu/:id" /\ trip.stage = "created" /\ mine
         THEN [trip EXCEPT !.stage = "softDeleted"]
       ELSE IF op = "POST /menu/:id/restore" /\ trip.stage = "softDeleted" /\ mine
         THEN [trip EXCEPT !.stage = "restored"]
       ELSE [stage |-> "none", snap |-> {}]

NextMenuTrip ==
  \/ Tick /\ TripStep
  \/ GetMenu /\ TripStep
  \/ \E p \in MenuIdParams : GetMenuById(p) /\ TripStep
  \/ \E p \in MenuIdParams : GetMenuDescription(p) /\ TripStep
  \/ \E n \in RawNames : GetMenuByName(n) /\ TripStep
  \/ \E p \in MaxPriceParams : GetMenuByPrice(p) /\ TripStep
  \/ \E b \in CreateBodies : PostMenu(b) /\ TripStep
  \/ \E p \in MenuIdParams, b \in UpdateBodies : PatchMenu(p, b) /\ TripStep
  \/ \E p \in MenuIdParams : DeleteMenu(p) /\ TripStep
  \/ \E p \in MenuIdParams : HardDeleteMenu(p) /\ TripStep
  \/ \E p \in MenuIdParams : RestoreMenu(p) /\ TripStep

SpecMenuTrip == Init /\ [][NextMenuTrip]_vars

\* --------------------------------------------------------------- specials
\* a filter that lets soft-deleted specials through
notDeletedSpecial_All(r) == TRUE

\* isNull(special.deletedAt)
notDeletedSpecial(r) == r.deletedAt = NULL

\* JSON null in a request body
JsonNull == <<"null">>

\* z.string().datetime(): a date is written as its day number
DatetimeOk(s) == IntValueOk(s)

\* new Date(iso)
ToDate(s) == ParseInt(s)

SpecialFieldOk(body, f, nullable) ==
  CASE f = "name" -> NameOk(body[f])
    [] f = "price" -> PriceOk(body[f])
    [] f = "description" -> DescriptionOk(body[f])
    [] f = "is_active" -> body[f] \in BOOLEAN
    [] f \in {"valid_from", "valid_to"} ->
         (nullable /\ body[f] = JsonNull) \/ DatetimeOk(body[f])
    [] OTHER -> TRUE

\* the refinement shared by both special schemas: both dates given (and not
\* null) => valid_from before valid_to
DatesOrdered(body) ==
  ({"valid_from", "valid_to"} \subseteq DOMAIN body
     /\ body.valid_from # JsonNull /\ body.valid_to # JsonNull)
    => ToDate(body.valid_from) < ToDate(body.valid_to)

\* createSpecialSchema
CreateSpecialOk(body) ==
  /\ {"name", "price", "description"} \subseteq DOMAIN body
  /\ \A f \in DOMAIN body : SpecialFieldOk(body, f, FALSE)
  /\ DatesOrdered(body)

\* updateSpecialSchema
UpdateSpecialOk(body) ==
  /\ \A f \in DOMAIN body : SpecialFieldOk(body, f, TRUE)
  /\ DOMAIN body # {}
  /\ DatesOrdered(body)

SpecialDetails == {[name |-> <<"M", "o">>, price |-> 250, description |-> D1],
                   [name |-> <<"L", "a">>, price |-> 400, description |-> D2]}

SpecialCreateBodies ==
  SpecialDetails
    \cup {d @@ [is_active |-> a] : d \in SpecialDetails, a \in BOOLEAN}
    \cup {[name |-> BadName, price |-> 250, description |-> D1, is_active |-> TRUE],
          [name |-> <<"M", "o">>, is_active |-> TRUE]}

SpecialUpdateBodies ==
  {<<>>} \cup [is_active : BOOLEAN] \cup SpecialDetails
    \cup {[price |-> 400, is_active |-> TRUE], [price |-> 0, is_active |-> TRUE]}

SpecialIdParams == {IdStr(n) : n \in 1..MaxSpecialId} \cup {<<"a", "b", "c">>}

\* GET /specials
GetSpecials ==
  /\ response' = Reply(Request("GET /specials", NoParam, NoBody), 200,
                       Rows({r \in special : notDeletedSpecial(r)}))
  /\ UNCHANGED <<menuItems, menuSeq, special, specialSeq, hours, now>>

\* GET /specials/active
GetSpecialsActive ==
  /\ response' = Reply(Request("GET /specials/active", NoParam, NoBody), 200,
                       Rows({r \in special : r.is_active /\ notDeletedSpecial(r)}))
  /\ UNCHANGED <<menuItems, menuSeq, special, specialSeq, hours, now>>

\* GET /specials/:id
GetSpecialById(idParam) ==
  LET op == Request("GET /specials/:id", idParam, NoBody)
      id == ParseInt(idParam)
      specialItem == {r \in special : r.id = id /\ notDeletedSpecial(r)}
  IN /\ response' =
          IF ~IntValueOk(idParam) THEN Reply(op, 400, ValidationFailed)
          ELSE IF specialItem = {} THEN Reply(op, 404, Failure("Special not found"))
          ELSE Reply(op, 200, Row(First(specialItem)))
     /\ UNCHANGED <<menuItems, menuSeq, special, specialSeq, hours, now>>

\* a deactivation that updates no row
Deactivate_Skip(rows, except) == rows

\* a deactivation that only PATCH /special/:id performs
Deactivate_PatchOnly(rows, except) ==
  IF except = 0 THEN rows
  ELSE {IF r.is_active /\ r.id # except THEN SetFields(r, [is_active |-> FALSE]) ELSE r :
          r \in rows}

\* a deactivation that only POST /special performs
Deactivate_CreateOnly(rows, except) ==
  IF except # 0 THEN rows
  ELSE {IF r.is_active THEN SetFields(r, [is_active |-> FALSE]) ELSE r : r \in rows}

\* .set({ is_active: false }).where(is_active = true [AND id != except])
Deactivate(rows, except) ==
  {IF r.is_active /\ r.id # except THEN SetFields(r, [is_active |-> FALSE]) ELSE r :
     r \in rows}

\* a create that deactivates the others whatever is_active it is given
PostSpecial_AlwaysDeactivates(body) ==
  LET op == Request("POST /special", NoParam, body)
      data == ParsedFields(body)
      willBeActive == IF "is_active" \in DOMAIN data THEN data.is_active ELSE TRUE
      others == Deactivate(special, 0)
      id == specialSeq + 1
      row == [id |-> id, name |-> Trim(data.name), price |-> data.price,
              description |-> Trim(data.description),
              is_active |-> willBeActive,
              valid_from |-> IF "valid_from" \in DOMAIN data
                               THEN ToDate(data.valid_from) ELSE NULL,
              valid_to |-> IF "valid_to" \in DOMAIN data
                             THEN ToDate(data.valid_to) ELSE NULL,
              createdAt |-> now, updatedAt |-> now, deletedAt |-> NULL]
      inserted == others \cup {row}
      newSpecial == CHOOSE r \in inserted : \A q \in inserted : q.id <= r.id
  IN IF ~CreateSpecialOk(body)
       THEN /\ response' = Reply(op, 400, ValidationFailed)
            /\ UNCHANGED <<menuItems, menuSeq, special, specialSeq, hours, now>>
     ELSE /\ specialSeq < MaxSpecialId
          /\ special' = inserted
          /\ specialSeq' = id
          /\ response' = Reply(op, 201, Row(newSpecial))
          /\ UNCHANGED <<menuItems, menuSeq, hours, now>>

\* a create whose is_active defaults to false
PostSpecial_DefaultOff(body) ==
  LET op == Request("POST /special", NoParam, body)
      data == ParsedFields(body)
      willBeActive == IF "is_active" \in DOMAIN data THEN data.is_active ELSE FALSE
      others == IF willBeActive THEN Deactivate(special, 0) ELSE special
      id == specialSeq + 1
      row == [id |-> id, name |-> Trim(data.name), price |-> data.price,
              description |-> Trim(data.description),
              is_active |-> willBeActive,
              valid_from |-> IF "valid_from" \in DOMAIN data
                               THEN ToDate(data.valid_from) ELSE NULL,
              valid_to |-> IF "valid_to" \in DOMAIN data
                             THEN ToDate(data.valid_to) ELSE NULL,
              createdAt |-> now, updatedAt |-> now, deletedAt |-> NULL]
      inserted == others \cup {row}
      newSpecial == CHOOSE r \in inserted : \A q \in inserted : q.id <= r.id
  IN IF ~CreateSpecialOk(body)
       THEN /\ response' = Reply(op, 400, ValidationFailed)
            /\ UNCHANGED <<menuItems, menuSeq, special, specialSeq, hours, now>>
     ELSE /\ specialSeq < MaxSpecialId
          /\ special' = inserted
          /\ specialSeq' = id
          /\ response' = Reply(op, 201, Row(newSpecial))
          /\ UNCHANGED <<menuItems, menuSeq, hours, now>>

\* POST /special
PostSpecial(body) ==
  LET op == Request("POST /special", NoParam, body)
      data == ParsedFields(body)
      willBeActive == IF "is_active" \in DOMAIN data THEN data.is_active ELSE TRUE
      others == IF willBeActive THEN Deactivate(special, 0) ELSE special
      id == specialSeq + 1
      row == [id |-> id, name |-> Trim(data.name), price |-> data.price,
              description |-> Trim(data.description),
              is_active |-> willBeActive,
              valid_from |-> IF "valid_from" \in DOMAIN data
                               THEN ToDate(data.valid_from) ELSE NULL,
              valid_to |-> IF "valid_to" \in DOMAIN data
                             THEN ToDate(data.valid_to) ELSE NULL,
              createdAt |-> now, updatedAt |-> now, deletedAt |-> NULL]
      inserted == others \cup {row}
      newSpecial == CHOOSE r \in inserted : \A q \in inserted : q.id <= r.id
  IN IF ~CreateSpecialOk(body)
       THEN /\ response' = Reply(op, 400, ValidationFailed)
            /\ UNCHANGED <<menuItems, menuSeq, special, specialSeq, hours, now>>
     ELSE /\ specialSeq < MaxSpecialId
          /\ special' = inserted
          /\ specialSeq' = id
          /\ response' = Reply(op, 201, Row(newSpecial))
          /\ UNCHANGED <<menuItems, menuSeq, hours, now>>

\* updateData of PATCH /special/:id
UpdateData(updates) ==
  [f \in DOMAIN updates |->
     IF f \in {"valid_from", "valid_to"}
       THEN (IF updates[f] = JsonNull THEN NULL ELSE ToDate(updates[f]))
       ELSE updates[f]]

\* an update that deactivates the others before it looks the special up
PatchSpecial_DeactivateFirst(idParam, body) ==
  LET op == Request("PATCH /special/:id", idParam, body)
      id == ParseInt(idParam)
      updates == ParsedFields(body)
      existingSpecial == {r \in special : r.id = id /\ notDeletedSpecial(r)}
      others == IF "is_active" \in DOMAIN updates /\ updates.is_active = TRUE
                  THEN Deactivate(special, id) ELSE special
      updated == {IF r.id = id THEN SetFields(r, UpdateData(updates)) ELSE r :
                    r \in others}
      updatedSpecial == {r \in updated : r.id = id}
  IN /\ response' =
          IF ~IntValueOk(idParam) \/ ~UpdateSpecialOk(body)
            THEN Reply(op, 400, ValidationFailed)
          ELSE IF existingSpecial = {} THEN Reply(op, 404, Failure("Special not found"))
          ELSE Reply(op, 200, Row(First(updatedSpecial)))
     /\ special' = IF response'.status = 200 THEN updated
                   ELSE IF response'.status = 404 THEN others
                   ELSE special
     /\ UNCHANGED <<menuItems, menuSeq, specialSeq, hours, now>>

\* an update that deactivates the others before it validates the body
PatchSpecial_ValidatesLate(idParam, body) ==
  LET op == Request("PATCH /special/:id", idParam, body)
      id == ParseInt(idParam)
      updates == ParsedFields(body)
      existingSpecial == {r \in special : r.id = id /\ notDeletedSpecial(r)}
      others == IF "is_active" \in DOMAIN updates /\ updates.is_active = TRUE
                  THEN Deactivate(special, id) ELSE special
      updated == {IF r.id = id THEN SetFields(r, UpdateData(updates)) ELSE r :
                    r \in others}
      updatedSpecial == {r \in updated : r.id = id}
  IN /\ response' =
          IF ~IntValueOk(idParam) \/ ~UpdateSpecialOk(body)
            THEN Reply(op, 400, ValidationFailed)
          ELSE IF existingSpecial = {} THEN Reply(op, 404, Failure("Special not found"))
          ELSE Reply(op, 200, Row(First(updatedSpecial)))
     /\ special' = IF response'.status = 200 THEN updated
                   ELSE IF response'.status = 400 /\ IntValueOk(idParam) THEN others
                   ELSE special
     /\ UNCHANGED <<menuItems, menuSeq, specialSeq, hours, now>>

\* PATCH /special/:id
PatchSpecial(idParam, body) ==
  LET op == Request("PATCH /special/:id", idParam, body)
      id == ParseInt(idParam)
      updates == ParsedFields(body)
      existingSpecial == {r \in special : r.id = id /\ notDeletedSpecial(r)}
      others == IF "is_active" \in DOMAIN updates /\ updates.is_active = TRUE
                  THEN Deactivate(special, id) ELSE special
      updated == {IF r.id = id THEN SetFields(r, UpdateData(updates)) ELSE r :
                    r \in others}
      updatedSpecial == {r \in updated : r.id = id}
  IN /\ response' =
          IF ~IntValueOk(idParam) \/ ~UpdateSpecialOk(body)
            THEN Reply(op, 400, ValidationFailed)
          ELSE IF existingSpecial = {} THEN Reply(op, 404, Failure("Special not found"))
          ELSE Reply(op, 200, Row(First(updatedSpecial)))
     /\ special' = IF response'.status = 200 THEN updated ELSE special
     /\ UNCHANGED <<menuItems, menuSeq, specialSeq, hours, now>>

\* a soft delete that also takes the special out of service
DeleteSpecial_Deactivates(idParam) ==
  LET op == Request("DELETE /special/:id", idParam, NoBody)
      id == ParseInt(idParam)
      existingSpecial == {r \in special : r.id = id /\ notDeletedSpecial(r)}
      updated == {IF r.id = id
                    THEN SetFields(r, [deletedAt |-> now, updatedAt |-> now,
                                       is_active |-> FALSE])
                    ELSE r : r \in special}
      deletedSpecial == {r \in updated : r.id = id}
  IN /\ response' =
          IF ~IntValueOk(idParam) THEN Reply(op, 400, ValidationFailed)
          ELSE IF existingSpecial = {} THEN Reply(op, 404, Failure("Special not found"))
          ELSE Reply(op, 200,
                     Done("Special soft-deleted successfully", First(deletedSpecial)))
     /\ special' = IF response'.status = 200 THEN updated ELSE special
     /\ UNCHANGED <<menuItems, menuSeq, specialSeq, hours, now>>

\* a soft delete that, when it deletes the active special, activates the
\* specials that remain
DeleteSpecial_Promotes(idParam) ==
  LET op == Request("DELETE /special/:id", idParam, NoBody)
      id == ParseInt(idParam)
      existingSpecial == {r \in special : r.id = id /\ notDeletedSpecial(r)}
      wasActive == \E r \in existingSpecial : r.is_active
      updated == {IF r.id = id
                    THEN SetFields(r, [deletedAt |-> now, updatedAt |-> now])
                    ELSE IF wasActive /\ notDeletedSpecial(r)
                      THEN SetFields(r, [is_active |-> TRUE])
                    ELSE r : r \in special}
      deletedSpecial == {r \in updated : r.id = id}
  IN /\ response' =
          IF ~IntValueOk(idParam) THEN Reply(op, 400, ValidationFailed)
          ELSE IF existingSpecial = {} THEN Reply(op, 404, Failure("Special not found"))
          ELSE Reply(op, 200,
                     Done("Special soft-deleted successfully", First(deletedSpecial)))
     /\ special' = IF response'.status = 200 THEN updated ELSE special
     /\ UNCHANGED <<menuItems, menuSeq, specialSeq, hours, now>>

\* DELETE /special/:id
DeleteSpecial(idParam) ==
  LET op == Request("DELETE /special/:id", idParam, NoBody)
      id == ParseInt(idParam)
      existingSpecial == {r \in special : r.id = id /\ notDeletedSpecial(r)}
      updated == {IF r.id = id
                    THEN SetFields(r, [deletedAt |-> now, updatedAt |-> now])
                    ELSE r : r \in special}
      deletedSpecial == {r \in updated : r.id = id}
  IN /\ response' =
          IF ~IntValueOk(idParam) THEN Reply(op, 400, ValidationFailed)
          ELSE IF existingSpecial = {} THEN Reply(op, 404, Failure("Special not found"))
          ELSE Reply(op, 200,
                     Done("Special soft-deleted successfully", First(deletedSpecial)))
     /\ special' = IF response'.status = 200 THEN updated ELSE special
     /\ UNCHANGED <<menuItems, menuSeq, specialSeq, hours, now>>

\* a hard delete that answers as if it had deleted, and keeps the row
HardDeleteSpecial_KeepsRow(idParam) ==
  LET op == Request("DELETE /special/:id/hard-delete", idParam, NoBody)
      id == ParseInt(idParam)
      existingSpecial == SoftDeletedById(special, id)
      anySpecial == {r \in special : r.id = id}
  IN /\ response' =
          IF ~IntValueOk(idParam) THEN Reply(op, 400, ValidationFailed)
          ELSE IF existingSpecial = {}
            THEN IF anySpecial = {} THEN Reply(op, 404, Failure("Special not found"))
                 ELSE Reply(op, 400, Refusal("Cannot hard delete active special",
                                         "Special must be soft-deleted first"))
          ELSE Reply(op, 200, Done("Special deleted successfully", First(existingSpecial)))
     /\ UNCHANGED <<menuItems, menuSeq, special, specialSeq, hours, now>>

\* DELETE /special/:id/hard-delete
HardDeleteSpecial(idParam) ==
  LET op == Request("DELETE /special/:id/hard-delete", idParam, NoBody)
      id == ParseInt(idParam)
      existingSpecial == SoftDeletedById(special, id)
      anySpecial == {r \in special : r.id = id}
  IN /\ response' =
          IF ~IntValueOk(idParam) THEN Reply(op, 400, ValidationFailed)
          ELSE IF existingSpecial = {}
            THEN IF anySpecial = {} THEN Reply(op, 404, Failure("Special not found"))
                 ELSE Reply(op, 400, Refusal("Cannot hard delete active special",
                                         "Special must be soft-deleted first"))
          ELSE Reply(op, 200, Done("Special deleted successfully", First(existingSpecial)))
     /\ special' = IF response'.status = 200
                     THEN {r \in special : r.id # id}
                     ELSE special
     /\ UNCHANGED <<menuItems, menuSeq, specialSeq, hours, now>>

\* a restore route for specials, written after the one for menu items
RestoreSpecial_Restores(idParam) ==
  LET op == Request("POST /special/:id/restore", idParam, NoBody)
      id == ParseInt(idParam)
      deletedItem == {r \in special : r.id = id}
      updated == {IF r.id = id
                    THEN SetFields(r, [deletedAt |-> NULL, updatedAt |-> now])
                    ELSE r : r \in special}
  IN /\ response' =
          IF ~IntValueOk(idParam) THEN Reply(op, 400, ValidationFailed)
          ELSE IF deletedItem = {} THEN Reply(op, 404, Failure("Special not found"))
          ELSE IF First(deletedItem).deletedAt = NULL
            THEN Reply(op, 400, Failure("Special is not deleted"))
          ELSE Reply(op, 200, Row(First({r \in updated : r.id = id})))
     /\ special' = IF response'.status = 200 THEN updated ELSE special
     /\ UNCHANGED <<menuItems, menuSeq, specialSeq, hours, now>>

\* POST /special/:id/restore: no such route is registered, so the request
\* reaches the catch-all handler
RestoreSpecial(idParam) ==
  /\ response' = Reply(Request("POST /special/:id/restore", idParam, NoBody),
                       404, Failure("Route not found"))
  /\ UNCHANGED <<menuItems, menuSeq, special, specialSeq, hours, now>>

NextSpecial ==
  \/ Tick /\ UNCHANGED trip
  \/ GetSpecials /\ UNCHANGED trip
  \/ GetSpecialsActive /\ UNCHANGED trip
  \/ \E p \in SpecialIdParams : GetSpecialById(p) /\ UNCHANGED trip
  \/ \E b \in SpecialCreateBodies : PostSpecial(b) /\ UNCHANGED trip
  \/ \E p \in SpecialIdParams, b \in SpecialUpdateBodies : PatchSpecial(p, b) /\ UNCHANGED trip
  \/ \E p \in SpecialIdParams : DeleteSpecial(p) /\ UNCHANGED trip
  \/ \E p \in SpecialIdParams : HardDeleteSpecial(p) /\ UNCHANGED trip
  \/ \E p \in SpecialIdParams : RestoreSpecial(p) /\ UNCHANGED trip

SpecSpecial == Init /\ [][NextSpecial]_vars

\* createTestSpecial: a row put into daily_special directly, as the tests and
\* the seed script do; is_active and deletedAt are whatever the caller gives
SeededSpecial(id, active, deleted) ==
  [id |-> id, name |-> <<"M", "o">>, price |-> 250, description |-> D1,
   is_active |-> active, valid_from |-> NULL, valid_to |-> NULL,
   createdAt |-> 0, updatedAt |-> 0,
   deletedAt |-> IF deleted THEN 0 ELSE NULL]

\* the tables that direct inserts can leave behind
SeededSpecials ==
  {{SeededSpecial(i, f[i][1], f[i][2]) : i \in 1..k} :
     k \in 0..MaxSpecialId, f \in [1..MaxSpecialId -> BOOLEAN \X BOOLEAN]}

InitSeeded ==
  /\ menuItems = {}
  /\ menuSeq = 0
  /\ special \in SeededSpecials
  /\ specialSeq = Cardinality(special)
  /\ hours = {}
  /\ now = 0
  /\ response = Reply(Request("none", NoParam, NoBody), 0, Rows({}))
  /\ trip = [stage |-> "none", snap |-> {}]

\* history: the specials that were visible and active before the last request
PriorStep ==
  trip' = IF now' # now THEN trip
          ELSE [stage |-> "prior",
                snap |-> {r \in special : r.is_active /\ notDeletedSpecial(r)}]

NextSpecialSeeded ==
  \/ Tick /\ PriorStep
  \/ GetSpecials /\ PriorStep
  \/ GetSpecialsActive /\ PriorStep
  \/ \E p \in SpecialIdParams : GetSpecialById(p) /\ PriorStep
  \/ \E b \in SpecialCreateBodies : PostSpecial(b) /\ PriorStep
  \/ \E p \in SpecialIdParams, b \in SpecialUpdateBodies : PatchSpecial(p, b) /\ PriorStep
  \/ \E p \in SpecialIdParams : DeleteSpecial(p) /\ PriorStep
  \/ \E p \in SpecialIdParams : HardDeleteSpecial(p) /\ PriorStep
  \/ \E p \in SpecialIdParams : RestoreSpecial(p) /\ PriorStep

SpecSpecialSeeded == InitSeeded /\ [][NextSpecialSeeded]_vars

\* ------------------------------------------------------------ store hours
HoursMax == 50       \* longest day value, before trimming

\* The characters U+2013 and U+2014 are written "ndash" and "mdash".
DigitChars == {"0", "1", "2", "3", "4", "5", "6", "7", "8", "9"}
UpperCase == <<"A", "B", "C", "D", "E", "F", "G", "H", "I", "J", "K", "L", "M", "N", "O", "P", "Q", "R", "S", "T", "U", "V", "W", "X", "Y", "Z">>
LowerCase == <<"a", "b", "c", "d", "e", "f", "g", "h", "i", "j", "k", "l", "m", "n", "o", "p", "q", "r", "s", "t", "u", "v", "w", "x", "y", "z">>

\* the i flag of a regular expression: letters compare by their lower case
FoldCase(s) ==
  [i \in 1..Len(s) |->
     IF \E k \in 1..Len(UpperCase) : UpperCase[k] = s[i]
       THEN LowerCase[CHOOSE k \in 1..Len(UpperCase) : UpperCase[k] = s[i]]
       ELSE s[i]]

\* A regular expression without alternation at the top is a sequence of
\* atoms; an atom is a set of alternative strings, taken min to max times.
Class(chars, min, max) == [alts |-> {<<c>> : c \in chars}, min |-> min, max |-> max]
OneOf(alts) == [alts |-> alts, min |-> 1, max |-> 1]
Optional(alts) == [alts |-> alts, min |-> 0, max |-> 1]
Spaces == Class({" "}, 0, HoursMax)    \* \s*

\* `piece` is in the language of `atom`: one alternative (or none, if the
\* atom is optional), or min to max characters of a class
InAtom(atom, piece) ==
  IF atom.max = 1
    THEN (piece = <<>> /\ atom.min = 0) \/ piece \in atom.alts
    ELSE /\ Len(piece) >= atom.min
         /\ Len(piece) <= atom.max
         /\ \A i \in 1..Len(piece) : <<piece[i]>> \in atom.alts

\* the ways to cut s into one piece per atom of the pattern
RECURSIVE Parses(_, _)
Parses(pattern, s) ==
  IF pattern = <<>> THEN (IF s = <<>> THEN {<<>>} ELSE {})
  ELSE UNION {{<<SubSeq(s, 1, k)>> \o rest :
                 rest \in Parses(Tail(pattern), SubSeq(s, k + 1, Len(s)))} :
              k \in {j \in 0..Len(s) : InAtom(Head(pattern), SubSeq(s, 1, j))}}

\* /^pattern$/.test(s)
Matches(pattern, s) == Parses(pattern, s) # {}

\* s.match(/pattern/g): the matches from left to right, each as long as the
\* pattern allows
RECURSIVE GlobalMatches(_, _)
GlobalMatches(pattern, s) ==
  IF s = <<>> THEN <<>>
  ELSE LET ends == {k \in 1..Len(s) : Matches(pattern, SubSeq(s, 1, k))}
           last == CHOOSE k \in ends : \A j \in ends : j <= k
       IN IF ends = {} THEN GlobalMatches(pattern, Tail(s))
          ELSE <<SubSeq(s, 1, last)>> \o GlobalMatches(pattern, SubSeq(s, last + 1, Len(s)))

\* closed|off|24\s*h(?:ours?)?|24\s*\/\s*7|open\s*24\s*hours?
SpecialKeywords ==
  {<<OneOf({<<"c", "l", "o", "s", "e", "d">>, <<"o", "f", "f">>})>>,
   <<OneOf({<<"2", "4">>}), Spaces, OneOf({<<"h">>, <<"h", "o", "u", "r">>, <<"h", "o", "u", "r", "s">>})>>,
   <<OneOf({<<"2", "4">>}), Spaces, OneOf({<<"/">>}), Spaces, OneOf({<<"7">>})>>,
   <<OneOf({<<"o", "p", "e", "n">>}), Spaces, OneOf({<<"2", "4">>}), Spaces, OneOf({<<"h", "o", "u", "r">>, <<"h", "o", "u", "r", "s">>})>>}

\* am|a\.m\.|pm|p\.m\. (and the same in capitals)
Meridiem == OneOf({<<"a", "m">>, <<"a", ".", "m", ".">>, <<"p", "m">>, <<"p", ".", "m", ".">>})

\* [-\u2013\u2014]|to
Separator == OneOf({<<"-">>, <<"ndash">>, <<"mdash">>, <<"t", "o">>})

\* (?::(\d{2}))?
ColonMinutes == Optional({<<":", a, b>> : a \in DigitChars, b \in DigitChars})

\* the expression of twelveHourPattern with hours and minutes in groups of
\* their own: pieces 1, 2, 8 and 9 are match[1] .. match[4]
TwelveHourPattern ==
  <<Class(DigitChars, 1, 2), ColonMinutes, Spaces, Meridiem, Spaces, Separator,
    Spaces, Class(DigitChars, 1, 2), ColonMinutes, Spaces, Meridiem>>

\* \d{1,2}[.:]\d{2}
ClockTime == <<Class(DigitChars, 1, 2), OneOf({<<".">>, <<":">>}), Class(DigitChars, 2, 2)>>

\* \d{3,4}
CompactTime == <<Class(DigitChars, 3, 4)>>

TwentyFourHourPattern1 == ClockTime \o <<Spaces, Separator, Spaces>> \o ClockTime
TwentyFourHourPattern2 == CompactTime \o <<Spaces, Separator, Spaces>> \o CompactTime

\* time.split(/[:.]/)
RECURSIVE Split(_)
Split(time) ==
  LET marks == {i \in 1..Len(time) : time[i] \in {":", "."}}
      first == CHOOSE i \in marks : \A j \in marks : i <= j
  IN IF marks = {} THEN <<time>>
     ELSE <<SubSeq(time, 1, first - 1)>> \o Split(SubSeq(time, first + 1, Len(time)))

\* one time of a 24-hour range: hours at most 23 and minutes at most 59
TimeInRange(time) ==
  LET compact == Len(time) = 4 /\ \A i \in 1..Len(time) : time[i] \notin {":", "."}
      parts == Split(time)
      hrs == IF compact THEN ParseInt(SubSeq(time, 1, 2)) ELSE ParseInt(parts[1])
      minutes == IF compact THEN ParseInt(SubSeq(time, 3, 4))
                 ELSE IF Len(parts) >= 2 /\ parts[2] # <<>> THEN ParseInt(parts[2])
                 ELSE 0
  IN ~(hrs > 23 \/ minutes > 59)

\* a validator that looks at the notation only
IsValidHoursFormat_NotationOnly(value) ==
  LET trimmed == Trim(value)
  IN \/ \E keyword \in SpecialKeywords : Matches(keyword, FoldCase(trimmed))
     \/ Matches(TwelveHourPattern, FoldCase(trimmed))
     \/ Matches(TwentyFourHourPattern1, trimmed)
     \/ Matches(TwentyFourHourPattern2, trimmed)

\* isValidHoursFormat
IsValidHoursFormat(value) ==
  LET trimmed == Trim(value)
      twelve == Parses(TwelveHourPattern, FoldCase(trimmed))
      match == CHOOSE m \in twelve : TRUE
      startHour == ParseInt(match[1])
      startMinutes == IF match[2] # <<>> THEN ParseInt(Tail(match[2])) ELSE 0
      endHour == ParseInt(match[8])
      endMinutes == IF match[9] # <<>> THEN ParseInt(Tail(match[9])) ELSE 0
      times == IF Matches(TwentyFourHourPattern1, trimmed)
                 THEN GlobalMatches(ClockTime, trimmed)
                 ELSE GlobalMatches(CompactTime, trimmed)
  IN IF \E keyword \in SpecialKeywords : Matches(keyword, FoldCase(trimmed)) THEN TRUE
     ELSE IF twelve # {}
       THEN /\ ~(startHour < 1 \/ startHour > 12 \/ startMinutes > 59)
            /\ ~(endHour < 1 \/ endHour > 12 \/ endMinutes > 59)
     ELSE IF Matches(TwentyFourHourPattern1, trimmed)
               \/ Matches(TwentyFourHourPattern2, trimmed)
       THEN \A i \in 1..Len(times) : TimeInRange(times[i])
     ELSE FALSE

\* hoursDaySchema: a string of at most 50 characters, not empty once trimmed,
\* in a valid format
HoursDayOk(raw) ==
  /\ Len(raw) <= HoursMax
  /\ Len(Trim(raw)) > 0
  /\ IsValidHoursFormat(Trim(raw))

DayNames == {"monday", "tuesday", "wednesday", "thursday", "friday", "saturday",
             "sunday"}

Closed == <<"C", "l", "o", "s", "e", "d">>

\* a schema that stores the day fields in lower case
ParsedHours_Folded(body) ==
  [d \in DOMAIN body \cap DayNames |-> FoldCase(Trim(body[d]))]

\* result.data of updateHoursSchema: the day fields that were sent, trimmed
\* (other keys are dropped)
ParsedHours(body) ==
  [d \in DOMAIN body \cap DayNames |-> Trim(body[d])]

\* a schema that is content with one valid day and drops the others
UpdateHoursOk_AnyValidDay(body) ==
  \E d \in DOMAIN body \cap DayNames : HoursDayOk(body[d])

\* updateHoursSchema
UpdateHoursOk(body) ==
  /\ \A d \in DOMAIN body \cap DayNames : HoursDayOk(body[d])
  /\ DOMAIN ParsedHours(body) # {}

\* new hours in which a day that was not sent is left empty
NewHours_Blank(data) ==
  [d \in DayNames |-> IF d \in DOMAIN data THEN data[d] ELSE <<>>]

\* newHours: the days that were sent, and 'Closed' for the others
NewHours(data) ==
  [d \in DayNames |-> IF d \in DOMAIN data THEN data[d] ELSE Closed]

\* a read that answers an empty table with 200 and no row
GetHours_Empty ==
  /\ response' = Reply(Request("GET /hours", NoParam, NoBody), 200, Rows(hours))
  /\ UNCHANGED <<menuItems, menuSeq, special, specialSeq, hours, now>>

\* GET /hours
GetHours ==
  /\ response' =
       IF hours = {}
         THEN Reply(Request("GET /hours", NoParam, NoBody), 404,
                    Failure("Store hours not found"))
         ELSE Reply(Request("GET /hours", NoParam, NoBody), 200, Row(First(hours)))
  /\ UNCHANGED <<menuItems, menuSeq, special, specialSeq, hours, now>>

\* an update that writes the days that were not sent as 'Closed'
PatchHours_Replace(body) ==
  LET op == Request("PATCH /hours", NoParam, body)
      data == IF UpdateHoursOk(body) THEN ParsedHours(body) ELSE <<>>
      existingHours == First(hours)
      updated == {IF r.id = existingHours.id
                    THEN SetFields(r, NewHours(data)) ELSE r : r \in hours}
      inserted == hours \cup {NewHours(data) @@ [id |-> Cardinality(hours) + 1]}
  IN IF ~UpdateHoursOk(body)
       THEN /\ response' = Reply(op, 400, ValidationFailed)
            /\ UNCHANGED <<menuItems, menuSeq, special, specialSeq, hours, now>>
     ELSE IF hours # {}
       THEN /\ hours' = updated
            /\ response' = Reply(op, 200, Rows({r \in updated : r.id = existingHours.id}))
            /\ UNCHANGED <<menuItems, menuSeq, special, specialSeq, now>>
     ELSE /\ hours' = inserted
          /\ response' = Reply(op, 201, Row(First(inserted)))
          /\ UNCHANGED <<menuItems, menuSeq, special, specialSeq, now>>

\* an update that inserts a row whether or not there is one
PatchHours_Insert(body) ==
  LET op == Request("PATCH /hours", NoParam, body)
      data == IF UpdateHoursOk(body) THEN ParsedHours(body) ELSE <<>>
      inserted == hours \cup {NewHours(data) @@ [id |-> Cardinality(hours) + 1]}
  IN IF ~UpdateHoursOk(body)
       THEN /\ response' = Reply(op, 400, ValidationFailed)
            /\ UNCHANGED <<menuItems, menuSeq, special, specialSeq, hours, now>>
     ELSE /\ Cardinality(hours) < 2
          /\ hours' = inserted
          /\ response' = Reply(op, 201, Row(First(inserted)))
          /\ UNCHANGED <<menuItems, menuSeq, special, specialSeq, now>>

\* PATCH /hours.  store_hours has no delete, so the row that is inserted into
\* the empty table gets the first id.
PatchHours(body) ==
  LET op == Request("PATCH /hours", NoParam, body)
      data == IF UpdateHoursOk(body) THEN ParsedHours(body) ELSE <<>>
      existingHours == First(hours)
      updated == {IF r.id = existingHours.id THEN SetFields(r, data) ELSE r : r \in hours}
      inserted == hours \cup {NewHours(data) @@ [id |-> Cardinality(hours) + 1]}
  IN IF ~UpdateHoursOk(body)
       THEN /\ response' = Reply(op, 400, ValidationFailed)
            /\ UNCHANGED <<menuItems, menuSeq, special, specialSeq, hours, now>>
     ELSE IF hours # {}
       THEN /\ hours' = updated
            /\ response' = Reply(op, 200, Rows({r \in updated : r.id = existingHours.id}))
            /\ UNCHANGED <<menuItems, menuSeq, special, specialSeq, now>>
     ELSE /\ hours' = inserted
          /\ response' = Reply(op, 201, Row(First(inserted)))
          /\ UNCHANGED <<menuItems, menuSeq, special, specialSeq, now>>

\* day values: three that are valid (one of them padded), two that are not
NineToFive == <<"9", "a", "m", " ", "-", " ", "5", "p", "m">>
SevenToSeven == <<" ", "0", "7", ":", "0", "0", " ", "-", " ", "1", "9", ":", "0", "0", " ">>
AllDay == <<"2", "4", "/", "7">>
ThirteenAm == <<"1", "3", "a", "m", " ", "-", " ", "8", "p", "m">>
RandomText == <<"r", "a", "n", "d", "o", "m", " ", "t", "e", "x", "t">>

\* 'Closed' behind 45 blanks: 51 characters
LongClosed == [i \in 1..(HoursMax + 1) |-> IF i <= HoursMax - 5 THEN " " ELSE Closed[i - (HoursMax - 5)]]

HoursValues == {NineToFive, SevenToSeven, ThirteenAm}

\* bodies with monday, with friday, with both, with sunday; the empty body;
\* a body with no day in it
HoursBodies ==
  [{"monday"} -> HoursValues] \cup [{"friday"} -> HoursValues]
    \cup [{"monday", "friday"} -> HoursValues]
    \cup {[sunday |-> AllDay], [sunday |-> RandomText], [sunday |-> LongClosed], <<>>,
          [open |-> NineToFive],
          [monday |-> <<" ">>], [tuesday |-> NineToFive, open |-> RandomText]}

NextHours ==
  \/ GetHours /\ UNCHANGED trip
  \/ \E b \in HoursBodies : PatchHours(b) /\ UNCHANGED trip

SpecHours == Init /\ [][NextHours]_vars

\* Day values in each notation the validator knows, written from the
\* numbers they stand for: hours and minutes at and beyond both ends of their
\* ranges, with and without minutes, padded or not.
NoMinutes == -1

Two(n) == IdStr(n \div 10) \o IdStr(n % 10)

MeridiemTexts == {<<"a", "m">>, <<"A", "M">>, <<" ", "a", ".", "m", ".">>, <<"P", ".", "M", ".">>, <<" ", "P", "m">>}
SeparatorTexts == {<<"-">>, <<" ", "-", " ">>, <<"t", "o">>, <<" ", "t", "o", " ">>, <<"ndash">>, <<" ", "mdash", " ">>, <<" ", "T", "O", " ">>}

TwelveHourInputs ==
  {[kind |-> "12h", h1 |-> a, m1 |-> b, p1 |-> <<"a", "m">>, sep |-> <<" ", "-", " ">>,
    h2 |-> c, m2 |-> d, p2 |-> <<"p", "m">>] :
     a \in {0, 1, 12, 13}, b \in {NoMinutes, 0, 59, 60},
     c \in {0, 1, 12, 13}, d \in {NoMinutes, 0, 59, 60}}
    \cup {[kind |-> "12h", h1 |-> a, m1 |-> NoMinutes, p1 |-> p, sep |-> x,
           h2 |-> 8, m2 |-> 0, p2 |-> p] :
            a \in {6, 13}, p \in MeridiemTexts, x \in SeparatorTexts}

TwentyFourHourInputs ==
  {[kind |-> "24h", h1 |-> a, m1 |-> b, mark |-> k, pad |-> z, sep |-> <<" ", "-", " ">>,
    h2 |-> c, m2 |-> d] :
     a \in {0, 7, 23, 24}, b \in {0, 59, 60}, c \in {0, 7, 23, 24}, d \in {0, 59, 60},
     k \in {":", "."}, z \in BOOLEAN}
    \cup {[kind |-> "24h", h1 |-> 7, m1 |-> 0, mark |-> ":", pad |-> TRUE, sep |-> x,
           h2 |-> a, m2 |-> 0] : a \in {19, 25}, x \in SeparatorTexts}

CompactInputs ==
  {[kind |-> "compact", h1 |-> a, m1 |-> b, pad |-> z, sep |-> <<"-">>,
    h2 |-> c, m2 |-> d] :
     a \in {0, 7, 23, 24}, b \in {0, 23, 59, 60},
     c \in {0, 7, 23, 24}, d \in {0, 23, 59, 60}, z \in BOOLEAN}

KeywordInputs ==
  {[kind |-> "keyword", text |-> x] :
     x \in {<<"C", "l", "o", "s", "e", "d">>, <<"c", "l", "o", "s", "e", "d">>, <<"O", "F", "F">>, <<"2", "4", "h">>, <<"2", "4", " ", "h", "o", "u", "r", "s">>, <<"2", "4", " ", "h", "o", "u", "r">>, <<"2", "4", "/", "7">>,
            <<"2", "4", " ", "/", " ", "7">>, <<"o", "p", "e", "n", " ", "2", "4", " ", "h", "o", "u", "r", "s">>, <<"O", "p", "e", "n", " ", "2", "4", " ", "H", "o", "u", "r">>}}

\* values in none of the notations: one side of a range, a chain of ranges,
\* two notations mixed, hours without am or pm, one minute digit, two or
\* five compact digits, a keyword with a letter too many, plain text
OtherInputs ==
  {[kind |-> "other", text |-> x] :
     x \in {<<"r", "a", "n", "d", "o", "m", " ", "t", "e", "x", "t">>, <<"6", "a", "m">>, <<"6", "a", "m", " ", "-", " ">>, <<"-", " ", "8", "p", "m">>, <<"6", "a", "m", " ", "-", " ", "8", "p", "m", " ", "-", " ", "1", "0", "p", "m">>,
            <<"0", "7", ":", "0", "0", " ", "-", " ", "8", "p", "m">>, <<"6", " ", "-", " ", "8">>, <<"7", ":", "0", " ", "-", " ", "1", "9", ":", "0", "0">>, <<"0", "7", ":", "0", "0">>, <<"0", "7", "-", "1", "9">>,
            <<"1", "2", "3", "4", "5", "-", "1", "9", "0", "0">>, <<"0", "7", "0", "0", " ", "1", "9", "0", "0">>, <<"c", "l", "o", "s", "e", "d", "d">>, <<"2", "4">>, <<"6", "x", "m", " ", "-", " ", "8", "p", "m">>,
            <<"6", ":", "0", "a", "m", " ", "-", " ", "8", "p", "m">>, <<"1", "2", "3", "a", "m", " ", "-", " ", "8", "p", "m">>, <<"0", "7", ":", "0", "0", " ", "-", " ", "1", "9", ":", "0", "0", " ", "T", "O", " ", "2", "1", ":", "0", "0">>}}

FormatInputs ==
  TwelveHourInputs \cup TwentyFourHourInputs \cup CompactInputs
    \cup KeywordInputs \cup OtherInputs

\* the text of a day value
Render(t) ==
  CASE t.kind = "12h" ->
         IntToString(t.h1)
           \o (IF t.m1 = NoMinutes THEN <<>> ELSE <<":">> \o Two(t.m1)) \o t.p1
           \o t.sep
           \o IntToString(t.h2)
           \o (IF t.m2 = NoMinutes THEN <<>> ELSE <<":">> \o Two(t.m2)) \o t.p2
    [] t.kind = "24h" ->
         (IF t.pad THEN Two(t.h1) ELSE IntToString(t.h1)) \o <<t.mark>> \o Two(t.m1)
           \o t.sep
           \o (IF t.pad THEN Two(t.h2) ELSE IntToString(t.h2)) \o <<t.mark>> \o Two(t.m2)
    [] t.kind = "compact" ->
         (IF t.pad THEN Two(t.h1) ELSE IntToString(t.h1)) \o Two(t.m1)
           \o t.sep
           \o (IF t.pad THEN Two(t.h2) ELSE IntToString(t.h2)) \o Two(t.m2)
    [] OTHER -> t.text

\* One day value per behaviour: the history variable holds the value that
\* the client sends for monday, and every PATCH /hours sends it.
InitFormat ==
  /\ menuItems = {}
  /\ menuSeq = 0
  /\ special = {}
  /\ specialSeq = 0
  /\ hours = {}
  /\ now = 0
  /\ response = Reply(Request("none", NoParam, NoBody), 0, Rows({}))
  /\ \E t \in FormatInputs : trip = [stage |-> "value", snap |-> {t}]

NextHoursFormat ==
  \/ GetHours /\ UNCHANGED trip
  \/ \E t \in trip.snap : PatchHours([monday |-> Render(t)]) /\ UNCHANGED trip

SpecHoursFormat == InitFormat /\ [][NextHoursFormat]_vars

Next == NextMenu \/ NextSpecial \/ NextHours

Spec == Init /\ [][Next]_vars

\* No handler of one table reads or writes the other one.  NextStore explores
\* both tables, one populated table per behaviour.
NextStore ==
  \/ Tick /\ UNCHANGED trip
  \/ specialSeq = 0 /\ GetMenu /\ UNCHANGED trip
  \/ specialSeq = 0 /\ \E p \in MenuIdParams : GetMenuById(p) /\ UNCHANGED trip
  \/ specialSeq = 0 /\ \E p \in MenuIdParams : GetMenuDescription(p) /\ UNCHANGED trip
  \/ specialSeq = 0 /\ \E n \in RawNames : GetMenuByName(n) /\ UNCHANGED trip
  \/ specialSeq = 0 /\ \E p \in MaxPriceParams : GetMenuByPrice(p) /\ UNCHANGED trip
  \/ specialSeq = 0 /\ \E b \in CreateBodies : PostMenu(b) /\ UNCHANGED trip
  \/ specialSeq = 0 /\ \E p \in MenuIdParams, b \in UpdateBodies : PatchMenu(p, b) /\ UNCHANGED trip
  \/ specialSeq = 0 /\ \E p \in MenuIdParams : DeleteMenu(p) /\ UNCHANGED trip
  \/ specialSeq = 0 /\ \E p \in MenuIdParams : HardDeleteMenu(p) /\ UNCHANGED trip
  \/ specialSeq = 0 /\ \E p \in MenuIdParams : RestoreMenu(p) /\ UNCHANGED trip
  \/ menuSeq = 0 /\ GetSpecials /\ UNCHANGED trip
  \/ menuSeq = 0 /\ GetSpecialsActive /\ UNCHANGED trip
  \/ menuSeq = 0 /\ \E p \in SpecialIdParams : GetSpecialById(p) /\ UNCHANGED trip
  \/ menuSeq = 0 /\ \E b \in SpecialCreateBodies : PostSpecial(b) /\ UNCHANGED trip
  \/ menuSeq = 0 /\ \E p \in SpecialIdParams, b \in SpecialUpdateBodies : PatchSpecial(p, b) /\ UNCHANGED trip
  \/ menuSeq = 0 /\ \E p \in SpecialIdParams : DeleteSpecial(p) /\ UNCHANGED trip
  \/ menuSeq = 0 /\ \E p \in SpecialIdParams : HardDeleteSpecial(p) /\ UNCHANGED trip
  \/ menuSeq = 0 /\ \E p \in SpecialIdParams : RestoreSpecial(p) /\ UNCHANGED trip

SpecStore == Init /\ [][NextStore]_vars

\* Specials with a validity period.  A date is sent as a string and stored
\* as a Date; JSON null in an update clears the column.
DateStrings == {<<"1">>, <<"2">>, <<"3">>}

Undated == [name |-> <<"M", "o">>, price |-> 250, description |-> D1]

DatedCreateBodies ==
  {Undated}
    \cup {Undated @@ [valid_from |-> f] : f \in DateStrings}
    \cup {Undated @@ [valid_to |-> t] : t \in DateStrings}
    \cup {Undated @@ [valid_from |-> f, valid_to |-> t] :
            f \in DateStrings, t \in DateStrings}
    \cup {Undated @@ [valid_from |-> <<"x">>]}

DatedUpdateBodies ==
  [valid_from : DateStrings \cup {JsonNull}]
    \cup [valid_to : DateStrings \cup {JsonNull}]
    \cup [valid_from : DateStrings \cup {JsonNull}, valid_to : DateStrings \cup {JsonNull}]
    \cup {[valid_to |-> <<"x">>]}

NextSpecialDates ==
  \/ Tick /\ UNCHANGED trip
  \/ \E p \in SpecialIdParams : GetSpecialById(p) /\ UNCHANGED trip
  \/ \E b \in DatedCreateBodies : PostSpecial(b) /\ UNCHANGED trip
  \/ \E p \in SpecialIdParams, b \in DatedUpdateBodies : PatchSpecial(p, b) /\ UNCHANGED trip

SpecSpecialDates == Init /\ [][NextSpecialDates]_vars

\* Requests of every route, most of them malformed, against all three
\* tables at once.
GoodMenuCreateBody == WithName(<<"L", "a">>, [price |-> 250, description |-> D1])
BadMenuCreateBodies ==
  {WithName(BadName, [price |-> 250, description |-> D1]),
   WithName(<<"M", "o">>, [price |-> 0, description |-> D1]),
   WithName(<<"M", "o">>, [price |-> 250, description |-> DShort]),
   [name |-> <<"M", "o">>, price |-> 250]}
BadMenuUpdateBodies == {<<>>, [name |-> BadName], [price |-> 0], [description |-> DShort]}

GoodSpecialCreateBody == Undated @@ [is_active |-> TRUE]
BadSpecialCreateBodies ==
  {[name |-> BadName, price |-> 250, description |-> D1, is_active |-> TRUE],
   [name |-> <<"M", "o">>, is_active |-> TRUE],
   Undated @@ [is_active |-> TRUE, valid_from |-> <<"3">>, valid_to |-> <<"1">>],
   Undated @@ [is_active |-> TRUE, valid_from |-> <<"x">>]}
BadSpecialUpdateBodies ==
  {<<>>, [is_active |-> TRUE, price |-> 0],
   [is_active |-> TRUE, valid_from |-> <<"3">>, valid_to |-> <<"1">>],
   [is_active |-> TRUE, valid_to |-> <<"x">>]}

BadHoursBodies ==
  {<<>>, [monday |-> ThirteenAm], [monday |-> NineToFive, friday |-> RandomText],
   [open |-> NineToFive]}

BadIdParam == <<"a", "b", "c">>
ShapeIdParams == {IdStr(1), IdStr(2), BadIdParam}

NextShape ==
  \/ GetMenu /\ UNCHANGED trip
  \/ \E p \in ShapeIdParams : GetMenuById(p) /\ UNCHANGED trip
  \/ \E p \in ShapeIdParams : GetMenuDescription(p) /\ UNCHANGED trip
  \/ \E n \in {<<"L", "a">>, BadName} : GetMenuByName(n) /\ UNCHANGED trip
  \/ \E p \in {<<"3">>, <<"0">>} : GetMenuByPrice(p) /\ UNCHANGED trip
  \/ \E b \in {GoodMenuCreateBody} \cup BadMenuCreateBodies : PostMenu(b) /\ UNCHANGED trip
  \/ \E p \in ShapeIdParams, b \in {[price |-> 400]} \cup BadMenuUpdateBodies :
       PatchMenu(p, b) /\ UNCHANGED trip
  \/ \E p \in ShapeIdParams : DeleteMenu(p) /\ UNCHANGED trip
  \/ \E p \in ShapeIdParams : HardDeleteMenu(p) /\ UNCHANGED trip
  \/ \E p \in ShapeIdParams : RestoreMenu(p) /\ UNCHANGED trip
  \/ GetSpecials /\ UNCHANGED trip
  \/ GetSpecialsActive /\ UNCHANGED trip
  \/ \E p \in ShapeIdParams : GetSpecialById(p) /\ UNCHANGED trip
  \/ \E b \in {GoodSpecialCreateBody} \cup BadSpecialCreateBodies :
       PostSpecial(b) /\ UNCHANGED trip
  \/ \E p \in ShapeIdParams, b \in {[is_active |-> TRUE]} \cup BadSpecialUpdateBodies :
       PatchSpecial(p, b) /\ UNCHANGED trip
  \/ \E p \in ShapeIdParams : DeleteSpecial(p) /\ UNCHANGED trip
  \/ \E p \in ShapeIdParams : HardDeleteSpecial(p) /\ UNCHANGED trip
  \/ \E p \in ShapeIdParams : RestoreSpecial(p) /\ UNCHANGED trip
  \/ GetHours /\ UNCHANGED trip
  \/ \E b \in {[monday |-> NineToFive]} \cup BadHoursBodies : PatchHours(b) /\ UNCHANGED trip

SpecShape == Init /\ [][NextShape]_vars

\* Day values with blanks before and after them.  The texts differ in letter
\* case, separator and notation; two of them are in no notation, and one is
\* a valid range of exactly 50 characters.
Blanks(n) == [i \in 1..n |-> " "]

DayTexts ==
  {<<"6", ":", "0", "0", " ", "A", "M", " ", "-", " ", "8", ":", "0", "0", " ", "P", "M">>,
   <<"9", "a", "m", "-", "5", "p", "m">>,
   <<"6", " ", "P", ".", "M", ".", " ", "T", "O", " ", "8", " ", "P", ".", "M", ".">>,
   <<"6", "p", "m", " ", "ndash", " ", "8", "p", "m">>,
   <<"0", "7", ":", "0", "0", " ", "-", " ", "1", "9", ":", "0", "0">>,
   <<"7", ".", "0", "0", " ", "t", "o", " ", "1", "9", ".", "0", "0">>,
   <<"0", "7", "0", "0", "-", "1", "9", "0", "0">>,
   <<"C", "L", "O", "S", "E", "D">>,
   <<"c", "l", "o", "s", "e", "d">>,
   <<"O", "f", "f">>,
   <<"2", "4", " ", "H", "o", "u", "r", "s">>,
   <<"2", "4", "/", "7">>,
   <<"6", "a", "m">> \o Blanks(HoursMax - 7) \o <<"-", "8", "p", "m">>,
   <<"r", "a", "n", "d", "o", "m", " ", "t", "e", "x", "t">>,
   <<"1", "3", "a", "m", " ", "-", " ", "8", "p", "m">>}

PaddedInputs ==
  {[kind |-> "padded", lead |-> a, text |-> x, trail |-> b] :
     a \in {0, 1, 2}, x \in DayTexts, b \in {0, 1, HoursMax - 5}}

\* the text that is sent: the day text between its blanks
Padded(t) == Blanks(t.lead) \o t.text \o Blanks(t.trail)

InitPadded ==
  /\ menuItems = {}
  /\ menuSeq = 0
  /\ special = {}
  /\ specialSeq = 0
  /\ hours = {}
  /\ now = 0
  /\ response = Reply(Request("none", NoParam, NoBody), 0, Rows({}))
  /\ \E t \in PaddedInputs : trip = [stage |-> "value", snap |-> {t}]

NextHoursPadded ==
  \/ GetHours /\ UNCHANGED trip
  \/ \E t \in trip.snap : PatchHours([monday |-> Padded(t)]) /\ UNCHANGED trip

SpecHoursPadded == InitPadded /\ [][NextHoursPadded]_vars

\* The ids that the store has assigned so far.  The history variable gains
\* the id of the row that a successful create adds to its table.
AssignedIds(kind) == {a.id : a \in {x \in trip.snap : x.kind = kind}}

IdStep ==
  LET op == response'.req.op
      created == IF op = "POST /menu"
                   THEN {r \in menuItems' : r.id \notin {q.id : q \in menuItems}}
                   ELSE {r \in special' : r.id \notin {q.id : q \in special}}
  IN trip' =
       IF response'.status = 201 /\ op \in {"POST /menu", "POST /special"}
         THEN [stage |-> "ids",
               snap |-> trip.snap \cup {[kind |-> op, id |-> r.id] : r \in created}]
         ELSE trip

NextIds ==
  \/ specialSeq = 0 /\ GetMenu /\ IdStep
  \/ specialSeq = 0 /\ \E b \in CreateBodies : PostMenu(b) /\ IdStep
  \/ specialSeq = 0 /\ \E p \in MenuIdParams : DeleteMenu(p) /\ IdStep
  \/ specialSeq = 0 /\ \E p \in MenuIdParams : HardDeleteMenu(p) /\ IdStep
  \/ specialSeq = 0 /\ \E p \in MenuIdParams : RestoreMenu(p) /\ IdStep
  \/ menuSeq = 0 /\ GetSpecials /\ IdStep
  \/ menuSeq = 0 /\ \E b \in SpecialCreateBodies : PostSpecial(b) /\ IdStep
  \/ menuSeq = 0 /\ \E p \in SpecialIdParams : DeleteSpecial(p) /\ IdStep
  \/ menuSeq = 0 /\ \E p \in SpecialIdParams : HardDeleteSpecial(p) /\ IdStep

SpecIds == Init /\ [][NextIds]_vars

\* ------------------------------------------------- handlers, by statement
\* The handlers of the create and update routes, one action per store
\* statement (db.select, db.insert, db.update) with the decisions that follow
\* it.  A request that has arrived has a frame: its position in the handler
\* (pc), what its reads found, the rowid its insert returned, its reply and
\* the position it replied at.
\* The frames are kept in the history variable.
MaxRequests == 3

Frame(rid, req) ==
  [rid |-> rid, req |-> req, pc |-> "start", found |-> FALSE, rowid |-> 0,
   reply |-> Reply(req, 0, Rows({})), at |-> "start"]

\* the request is between its first statement and its reply
Running(f) == f.pc \notin {"start", "done"}

\* a server that lets a handler start while another one is running
Turn_Any(f) == TRUE

\* The handlers are synchronous functions and the driver is synchronous: the
\* event loop calls a handler when no other handler is running, and the call
\* returns after the reply.
Turn(f) == \A g \in trip.snap : g.rid # f.rid => ~Running(g)

\* a request arrives and waits for its handler to be called
Arrive(req) ==
  /\ Cardinality(trip.snap) < MaxRequests
  /\ req.op = "POST /menu"
       => Cardinality({f \in trip.snap : f.req.op = req.op}) < MaxMenuId
  /\ req.op = "POST /special"
       => Cardinality({f \in trip.snap : f.req.op = req.op}) < MaxSpecialId
  /\ trip' = [stage |-> "frames",
              snap |-> trip.snap \cup {Frame(Cardinality(trip.snap) + 1, req)}]
  /\ UNCHANGED <<menuItems, menuSeq, special, specialSeq, hours, now, response>>

\* the handler goes on to its next statement
Goto(f, pc, found, rowid) ==
  /\ trip' = [trip EXCEPT !.snap = (@ \ {f})
                \cup {[f EXCEPT !.pc = pc, !.found = found, !.rowid = rowid]}]
  /\ response' = response

\* the handler replies and returns
Finish(f, status, body) ==
  /\ trip' = [trip EXCEPT !.snap = (@ \ {f})
                \cup {[f EXCEPT !.pc = "done", !.reply = Reply(f.req, status, body),
                                !.at = f.pc]}]
  /\ response' = Reply(f.req, status, body)

\* POST /menu: validation and the select of existingItems
StmtPostMenuCheck(f) ==
  LET data == ParsedFields(f.req.body)
      existingItems == {r \in menuItems :
                          Lower(r.name) = Lower(Trim(data.name)) /\ notDeleted(r)}
  IN /\ f.req.op = "POST /menu"
     /\ f.pc = "start"
     /\ IF ~CreateMenuItemOk(f.req.body)
          THEN Finish(f, 400, ValidationFailed)
        ELSE IF existingItems # {}
          THEN Finish(f, 409, Failure("Coffee with this name already exists"))
        ELSE Goto(f, "insert", FALSE, 0)
     /\ UNCHANGED <<menuItems, menuSeq, special, specialSeq, hours, now>>

\* POST /menu: the insert, and the catch of its UNIQUE constraint error
StmtPostMenuInsert(f) ==
  LET data == ParsedFields(f.req.body)
      id == menuSeq + 1
      row == [id |-> id, name |-> Trim(data.name), price |-> data.price,
              description |-> Trim(data.description),
              createdAt |-> now, updatedAt |-> now, deletedAt |-> NULL]
  IN /\ f.req.op = "POST /menu"
     /\ f.pc = "insert"
     /\ IF UniqueConstraintViolated(id, row.name)
          THEN /\ Finish(f, 409, Failure("Coffee with this name already exists"))
               /\ UNCHANGED <<menuItems, menuSeq>>
          ELSE /\ menuSeq < MaxMenuId
               /\ menuItems' = menuItems \cup {row}
               /\ menuSeq' = id
               /\ Goto(f, "fetch", FALSE, id)
     /\ UNCHANGED <<special, specialSeq, hours, now>>

\* POST /menu: the select of newItem by name
StmtPostMenuFetch(f) ==
  LET data == ParsedFields(f.req.body)
      newItem == {r \in menuItems : r.name = Trim(data.name)}
  IN /\ f.req.op = "POST /menu"
     /\ f.pc = "fetch"
     /\ IF newItem = {}
          THEN Finish(f, 500, Failure("Failed to retrieve created item"))
          ELSE Finish(f, 201, Row(First(newItem)))
     /\ UNCHANGED <<menuItems, menuSeq, special, specialSeq, hours, now>>

\* PATCH /menu/:id: validation and the select of existingItem
StmtPatchMenuExists(f) ==
  LET id == ParseInt(f.req.param)
      updates == ParsedFields(f.req.body)
      existingItem == {r \in menuItems : r.id = id /\ notDeleted(r)}
  IN /\ f.req.op = "PATCH /menu/:id"
     /\ f.pc = "start"
     /\ IF ~IntValueOk(f.req.param) \/ ~UpdateMenuItemOk(f.req.body)
          THEN Finish(f, 400, ValidationFailed)
        ELSE IF existingItem = {}
          THEN Finish(f, 404, Failure("Item not found"))
        ELSE IF "name" \in DOMAIN updates
          THEN Goto(f, "duplicate", FALSE, 0)
        ELSE Goto(f, "update", FALSE, 0)
     /\ UNCHANGED <<menuItems, menuSeq, special, specialSeq, hours, now>>

\* PATCH /menu/:id: the select of duplicate
StmtPatchMenuDuplicate(f) ==
  LET id == ParseInt(f.req.param)
      updates == ParsedFields(f.req.body)
      duplicate == {r \in menuItems :
                      /\ Lower(r.name) = Lower(Trim(updates.name))
                      /\ r.id # id
                      /\ notDeleted(r)}
  IN /\ f.req.op = "PATCH /menu/:id"
     /\ f.pc = "duplicate"
     /\ IF duplicate # {}
          THEN Finish(f, 409, Failure("Coffee with this name already exists"))
          ELSE Goto(f, "update", FALSE, 0)
     /\ UNCHANGED <<menuItems, menuSeq, special, specialSeq, hours, now>>

\* an update statement on a table without the unique index
StmtPatchMenuUpdate_NoIndex(f) ==
  LET id == ParseInt(f.req.param)
      updates == ParsedFields(f.req.body)
      updated == {IF r.id = id
                    THEN SetFields(r, updates @@ [updatedAt |-> now])
                    ELSE r : r \in menuItems}
  IN /\ f.req.op = "PATCH /menu/:id"
     /\ f.pc = "update"
     /\ menuItems' = updated
     /\ Goto(f, "fetch", FALSE, 0)
     /\ UNCHANGED <<menuSeq, special, specialSeq, hours, now>>

\* PATCH /menu/:id: the update, and the catch of its UNIQUE constraint error
StmtPatchMenuUpdate(f) ==
  LET id == ParseInt(f.req.param)
      updates == ParsedFields(f.req.body)
      updated == {IF r.id = id
                    THEN SetFields(r, updates @@ [updatedAt |-> now])
                    ELSE r : r \in menuItems}
  IN /\ f.req.op = "PATCH /menu/:id"
     /\ f.pc = "update"
     /\ IF /\ "name" \in DOMAIN updates
           /\ \E r \in menuItems : r.id = id
           /\ UniqueConstraintViolated(id, updates.name)
          THEN /\ Finish(f, 409, Failure("Coffee with this name already exists"))
               /\ UNCHANGED menuItems
          ELSE /\ menuItems' = updated
               /\ Goto(f, "fetch", FALSE, 0)
     /\ UNCHANGED <<menuSeq, special, specialSeq, hours, now>>

\* PATCH /menu/:id: the select of updatedItem
StmtPatchMenuFetch(f) ==
  LET id == ParseInt(f.req.param)
      updatedItem == {r \in menuItems : r.id = id /\ notDeleted(r)}
  IN /\ f.req.op = "PATCH /menu/:id"
     /\ f.pc = "fetch"
     /\ IF updatedItem = {}
          THEN Finish(f, 500, Failure("Failed to retrieve updated item"))
          ELSE Finish(f, 200, Row(First(updatedItem)))
     /\ UNCHANGED <<menuItems, menuSeq, special, specialSeq, hours, now>>

\* the row with the smallest id
MaxIdRow_Min(rows) == {r \in rows : \A q \in rows : r.id <= q.id}

\* WHERE id = (SELECT MAX(id) FROM daily_special)
MaxIdRow(rows) == {r \in rows : \A q \in rows : q.id <= r.id}

\* POST /special: validation and the select of activeSpecials
StmtPostSpecialFind(f) ==
  LET data == ParsedFields(f.req.body)
      willBeActive == IF "is_active" \in DOMAIN data THEN data.is_active ELSE TRUE
      activeSpecials == {r \in special : r.is_active}
  IN /\ f.req.op = "POST /special"
     /\ f.pc = "start"
     /\ IF ~CreateSpecialOk(f.req.body)
          THEN Finish(f, 400, ValidationFailed)
        ELSE IF willBeActive /\ activeSpecials # {}
          THEN Goto(f, "deactivate", TRUE, 0)
        ELSE Goto(f, "insert", FALSE, 0)
     /\ UNCHANGED <<menuItems, menuSeq, special, specialSeq, hours, now>>

\* POST /special: the update that deactivates the active specials
StmtPostSpecialDeactivate(f) ==
  /\ f.req.op = "POST /special"
  /\ f.pc = "deactivate"
  /\ special' = Deactivate(special, 0)
  /\ Goto(f, "insert", f.found, 0)
  /\ UNCHANGED <<menuItems, menuSeq, specialSeq, hours, now>>

\* POST /special: the insert
StmtPostSpecialInsert(f) ==
  LET data == ParsedFields(f.req.body)
      willBeActive == IF "is_active" \in DOMAIN data THEN data.is_active ELSE TRUE
      id == specialSeq + 1
      row == [id |-> id, name |-> Trim(data.name), price |-> data.price,
              description |-> Trim(data.description),
              is_active |-> willBeActive,
              valid_from |-> IF "valid_from" \in DOMAIN data
                               THEN ToDate(data.valid_from) ELSE NULL,
              valid_to |-> IF "valid_to" \in DOMAIN data
                             THEN ToDate(data.valid_to) ELSE NULL,
              createdAt |-> now, updatedAt |-> now, deletedAt |-> NULL]
  IN /\ f.req.op = "POST /special"
     /\ f.pc = "insert"
     /\ specialSeq < MaxSpecialId
     /\ special' = special \cup {row}
     /\ specialSeq' = id
     /\ Goto(f, "fetch", f.found, id)
     /\ UNCHANGED <<menuItems, menuSeq, hours, now>>

\* POST /special: the select of newSpecial by MAX(id)
StmtPostSpecialFetch(f) ==
  /\ f.req.op = "POST /special"
  /\ f.pc = "fetch"
  /\ IF MaxIdRow(special) = {}
       THEN Finish(f, 500, Failure("Failed to retrieve created special"))
       ELSE Finish(f, 201, Rows(MaxIdRow(special)))
  /\ UNCHANGED <<menuItems, menuSeq, special, specialSeq, hours, now>>

\* PATCH /special/:id: validation and the select of existingSpecial
StmtPatchSpecialExists(f) ==
  LET id == ParseInt(f.req.param)
      updates == ParsedFields(f.req.body)
      existingSpecial == {r \in special : r.id = id /\ notDeletedSpecial(r)}
  IN /\ f.req.op = "PATCH /special/:id"
     /\ f.pc = "start"
     /\ IF ~IntValueOk(f.req.param) \/ ~UpdateSpecialOk(f.req.body)
          THEN Finish(f, 400, ValidationFailed)
        ELSE IF existingSpecial = {}
          THEN Finish(f, 404, Failure("Special not found"))
        ELSE IF "is_active" \in DOMAIN updates /\ updates.is_active = TRUE
          THEN Goto(f, "others", FALSE, 0)
        ELSE Goto(f, "update", FALSE, 0)
     /\ UNCHANGED <<menuItems, menuSeq, special, specialSeq, hours, now>>

\* PATCH /special/:id: the select of otherActiveSpecials
StmtPatchSpecialOthers(f) ==
  LET id == ParseInt(f.req.param)
      otherActiveSpecials == {r \in special : r.is_active /\ r.id # id}
  IN /\ f.req.op = "PATCH /special/:id"
     /\ f.pc = "others"
     /\ IF otherActiveSpecials # {}
          THEN Goto(f, "deactivate", TRUE, 0)
          ELSE Goto(f, "update", FALSE, 0)
     /\ UNCHANGED <<menuItems, menuSeq, special, specialSeq, hours, now>>

\* PATCH /special/:id: the update that deactivates the other active specials
StmtPatchSpecialDeactivate(f) ==
  /\ f.req.op = "PATCH /special/:id"
  /\ f.pc = "deactivate"
  /\ special' = Deactivate(special, ParseInt(f.req.param))
  /\ Goto(f, "update", f.found, 0)
  /\ UNCHANGED <<menuItems, menuSeq, specialSeq, hours, now>>

\* PATCH /special/:id: the update of the special
StmtPatchSpecialUpdate(f) ==
  LET id == ParseInt(f.req.param)
      updates == ParsedFields(f.req.body)
  IN /\ f.req.op = "PATCH /special/:id"
     /\ f.pc = "update"
     /\ special' = {IF r.id = id THEN SetFields(r, UpdateData(updates)) ELSE r :
                      r \in special}
     /\ Goto(f, "fetch", f.found, 0)
     /\ UNCHANGED <<menuItems, menuSeq, specialSeq, hours, now>>

\* PATCH /special/:id: the select of updatedSpecial
StmtPatchSpecialFetch(f) ==
  LET id == ParseInt(f.req.param)
      updatedSpecial == {r \in special : r.id = id}
  IN /\ f.req.op = "PATCH /special/:id"
     /\ f.pc = "fetch"
     /\ IF updatedSpecial = {}
          THEN Finish(f, 500, Failure("Failed to retrieve updated special"))
          ELSE Finish(f, 200, Row(First(updatedSpecial)))
     /\ UNCHANGED <<menuItems, menuSeq, special, specialSeq, hours, now>>

\* requests that can collide: two creates, and updates that rename
MenuRequests ==
  {Request("POST /menu", NoParam, WithName(<<"L", "a">>, [price |-> 250, description |-> D1])),
   Request("POST /menu", NoParam, WithName(<<"M", "o">>, [price |-> 400, description |-> D2])),
   Request("POST /menu", NoParam, WithName(BadName, [price |-> 250, description |-> D1])),
   Request("PATCH /menu/:id", IdStr(1), [name |-> <<"L", "a">>]),
   Request("PATCH /menu/:id", IdStr(2), [name |-> <<"L", "a">>]),
   Request("PATCH /menu/:id", IdStr(1), [price |-> 400])}

SpecialRequests ==
  {Request("POST /special", NoParam, WithName(<<"M", "o">>, [price |-> 250, description |-> D1])),
   Request("POST /special", NoParam,
           WithName(<<"L", "a">>, [price |-> 400, description |-> D2]) @@ [is_active |-> FALSE]),
   Request("PATCH /special/:id", IdStr(1), [is_active |-> TRUE]),
   Request("PATCH /special/:id", IdStr(2), [price |-> 400])}

\* The server: requests arrive at any time, and the event loop runs one
\* handler at a time.  The requests of one behaviour are for one table.
NextEventLoop ==
  \/ \E q \in MenuRequests : specialSeq = 0 /\ Arrive(q)
       /\ \A f \in trip.snap : f.req \in MenuRequests
  \/ \E q \in SpecialRequests : menuSeq = 0 /\ Arrive(q)
       /\ \A f \in trip.snap : f.req \in SpecialRequests
  \/ \E f \in trip.snap : Turn(f) /\ StmtPostMenuCheck(f)
  \/ \E f \in trip.snap : Turn(f) /\ StmtPostMenuInsert(f)
  \/ \E f \in trip.snap : Turn(f) /\ StmtPostMenuFetch(f)
  \/ \E f \in trip.snap : Turn(f) /\ StmtPatchMenuExists(f)
  \/ \E f \in trip.snap : Turn(f) /\ StmtPatchMenuDuplicate(f)
  \/ \E f \in trip.snap : Turn(f) /\ StmtPatchMenuUpdate(f)
  \/ \E f \in trip.snap : Turn(f) /\ StmtPatchMenuFetch(f)
  \/ \E f \in trip.snap : Turn(f) /\ StmtPostSpecialFind(f)
  \/ \E f \in trip.snap : Turn(f) /\ StmtPostSpecialDeactivate(f)
  \/ \E f \in trip.snap : Turn(f) /\ StmtPostSpecialInsert(f)
  \/ \E f \in trip.snap : Turn(f) /\ StmtPostSpecialFetch(f)
  \/ \E f \in trip.snap : Turn(f) /\ StmtPatchSpecialExists(f)
  \/ \E f \in trip.snap : Turn(f) /\ StmtPatchSpecialOthers(f)
  \/ \E f \in trip.snap : Turn(f) /\ StmtPatchSpecialDeactivate(f)
  \/ \E f \in trip.snap : Turn(f) /\ StmtPatchSpecialUpdate(f)
  \/ \E f \in trip.snap : Turn(f) /\ StmtPatchSpecialFetch(f)

SpecEventLoop == Init /\ [][NextEventLoop]_vars

\* The store statements of the menu create and update handlers in any
\* order: the statements of one request in the order of its handler, those
\* of different requests interleaved freely (several servers on one database).
NextInterleaved ==
  \/ \E q \in MenuRequests : Arrive(q)
  \/ \E f \in trip.snap : StmtPostMenuCheck(f)
  \/ \E f \in trip.snap : StmtPostMenuInsert(f)
  \/ \E f \in trip.snap : StmtPostMenuFetch(f)
  \/ \E f \in trip.snap : StmtPatchMenuExists(f)
  \/ \E f \in trip.snap : StmtPatchMenuDuplicate(f)
  \/ \E f \in trip.snap : StmtPatchMenuUpdate(f)
  \/ \E f \in trip.snap : StmtPatchMenuFetch(f)

SpecInterleaved == Init /\ [][NextInterleaved]_vars

\* ================================================================== claims
\* The step just taken handled a request on route `op` (Tick is the only step
\* that is not a request, and the only one that moves the clock).
Answers(op) == now' = now /\ response'.req.op = op

\* the :id of the request just answered
AnsweredId == ParseInt(response'.req.param)

CasePairs == {<<"A", "a">>, <<"L", "l">>, <<"M", "m">>, <<"O", "o">>}

\* two strings that differ at most in the case of their letters
SameIgnoringCase(a, b) ==
  /\ Len(a) = Len(b)
  /\ \A i \in 1..Len(a) :
       a[i] = b[i] \/ <<a[i], b[i]>> \in CasePairs \/ <<b[i], a[i]>> \in CasePairs

Active(rows) == {r \in rows : r.deletedAt = NULL}
SoftDeleted(rows) == {r \in rows : r.deletedAt # NULL}
Ids(rows) == {r.id : r \in rows}

\* the row a response carries
Item == CHOOSE r \in response.body.items : TRUE

\* C1: no two non-deleted menu items have names that are equal ignoring
\* letter case.
C1_MenuNamesUnique ==
  \A a \in Active(menuItems) : \A b \in Active(menuItems) :
    a.id # b.id => ~SameIgnoringCase(a.name, b.name)

\* C2: at most one non-deleted special has is_active = true.
C2_AtMostOneActiveSpecial ==
  Cardinality({r \in Active(special) : r.is_active}) <= 1

\* a create with is_active = true was answered while another non-deleted
\* special, active before, is still there
C2_Witness ==
  /\ response.req.op = "POST /special"
  /\ response.status = 201
  /\ Item.is_active
  /\ \E r \in Active(special) : r.id < Item.id /\ ~r.is_active

ReturnedIds ==
  IF response.status # 200 THEN {}
  ELSE IF response.req.op \in {"GET /menu", "GET /menu/price/:maxPrice",
                               "GET /specials", "GET /specials/active"}
    THEN Ids(response.body.items)
  ELSE IF response.req.op \in {"GET /menu/:id", "GET /menu/name/:coffeeName",
                               "GET /specials/:id"}
    THEN {Item.id}
  ELSE IF response.req.op = "GET /menu/:id/description"
    THEN {ParseInt(response.req.param)}
  ELSE {}

MenuReads == {"GET /menu", "GET /menu/price/:maxPrice", "GET /menu/:id",
              "GET /menu/:id/description", "GET /menu/name/:coffeeName"}
SpecialReads == {"GET /specials", "GET /specials/active", "GET /specials/:id"}

\* C4: no visible read returns a soft-deleted menu item or special.
C4_SoftDeletedInvisible ==
  /\ response.req.op \in MenuReads
       => ReturnedIds \cap Ids(SoftDeleted(menuItems)) = {}
  /\ response.req.op \in SpecialReads
       => ReturnedIds \cap Ids(SoftDeleted(special)) = {}

\* the list was read while one item is soft-deleted and another is visible
C4_Witness ==
  /\ response.req.op = "GET /menu"
  /\ SoftDeleted(menuItems) # {}
  /\ ReturnedIds # {}
  /\ ReturnedIds = Ids(Active(menuItems))

\* C5: a soft delete succeeds only on an ACTIVE record; on a soft-deleted or
\* absent one it is answered 404 and changes nothing.
C5_SoftDeleteOnlyActive ==
  [][/\ (Answers("DELETE /menu/:id") /\ IntValueOk(response'.req.param))
          => IF AnsweredId \in Ids(Active(menuItems))
               THEN response'.status = 200
               ELSE /\ response'.status = 404
                    /\ response'.body.error = "Item not found"
                    /\ menuItems' = menuItems
     /\ (Answers("DELETE /special/:id") /\ IntValueOk(response'.req.param))
          => IF AnsweredId \in Ids(Active(special))
               THEN response'.status = 200
               ELSE /\ response'.status = 404
                    /\ response'.body.error = "Special not found"
                    /\ special' = special]_vars

\* the second soft delete, later than the first one, answered 404
C5_Witness ==
  /\ response.req.op = "DELETE /menu/:id"
  /\ response.status = 404
  /\ \E r \in SoftDeleted(menuItems) :
       /\ r.id = ParseInt(response.req.param)
       /\ r.deletedAt < now
       /\ r.updatedAt = r.deletedAt

C7_RestoreRoundTrip ==
  [][trip'.stage = "restored"
       => \E s \in trip'.snap : \E r \in menuItems' :
            /\ r.id = s.id
            /\ r.name = s.name
            /\ r.price = s.price
            /\ r.description = s.description
            /\ r.createdAt = s.createdAt
            /\ r.deletedAt = NULL
            /\ r.updatedAt >= s.updatedAt
            /\ \A q \in menuItems : q.id = r.id => r.updatedAt >= q.updatedAt
            /\ Answers("GET /menu") => r \in response'.body.items
            /\ (Answers("GET /menu/:id") /\ response'.req.param = IdStr(r.id))
                 => response'.status = 200 /\ response'.body.items = {r}
            /\ (Answers("GET /menu/:id/description")
                   /\ response'.req.param = IdStr(r.id))
                 => /\ response'.status = 200
                    /\ response'.body.items = {[description |-> FormattedDescription(s)]}
            /\ (Answers("GET /menu/name/:coffeeName")
                   /\ SameIgnoringCase(Trim(response'.req.param), r.name))
                 => response'.status = 200 /\ response'.body.items = {r}
            /\ (Answers("GET /menu/price/:maxPrice")
                   /\ FloatValueOk(response'.req.param)
                   /\ 100 * ParseInt(response'.req.param) >= r.price)
                 => r \in response'.body.items]_vars

\* the restored item, found by its name in another case, later than its create
C7_Witness ==
  /\ trip.stage = "restored"
  /\ response.req.op = "GET /menu/name/:coffeeName"
  /\ response.status = 200
  /\ response.req.param # Item.name
  /\ \E s \in trip.snap : Item.id = s.id /\ Item.updatedAt > s.updatedAt

\* C8: restore of an absent menu item is answered 404, restore of an ACTIVE
\* one 400 "Item is not deleted"; neither changes a row.
C8_RestoreErrors ==
  [][(Answers("POST /menu/:id/restore") /\ IntValueOk(response'.req.param))
       => /\ AnsweredId \notin Ids(menuItems)
               => /\ response'.status = 404
                  /\ response'.body.error = "Item not found"
                  /\ menuItems' = menuItems
          /\ AnsweredId \in Ids(Active(menuItems))
               => /\ response'.status = 400
                  /\ response'.body.error = "Item is not deleted"
                  /\ menuItems' = menuItems]_vars

C8_Witness ==
  /\ response.req.op = "POST /menu/:id/restore"
  /\ response.status = 400
  /\ response.body.error = "Item is not deleted"
  /\ ParseInt(response.req.param) \in Ids(Active(menuItems))

C10_CreateDuplicateRejected ==
  [][(Answers("POST /menu")
        /\ CreateMenuItemOk(response'.req.body)
        /\ \E r \in Active(menuItems) :
             SameIgnoringCase(r.name, Trim(response'.req.body.name)))
       => /\ response'.status = 409
          /\ menuItems' = menuItems
          /\ menuSeq' = menuSeq]_vars

\* "LA" refused while "La" (or "la") is on the menu
C10_Witness ==
  /\ response.req.op = "POST /menu"
  /\ response.status = 409
  /\ \E r \in Active(menuItems) :
       /\ r.name # Trim(response.req.body.name)
       /\ SameIgnoringCase(r.name, Trim(response.req.body.name))

\* the request just answered is a well-formed PATCH /menu/:id that names an
\* ACTIVE item and carries a name
RenamesActiveItem ==
  /\ Answers("PATCH /menu/:id")
  /\ IntValueOk(response'.req.param)
  /\ UpdateMenuItemOk(response'.req.body)
  /\ "name" \in DOMAIN response'.req.body
  /\ AnsweredId \in Ids(Active(menuItems))

\* the name a request body carries, as it would be stored
SentName(req) == Trim(req.body.name)

\* C11: an update of an ACTIVE menu item to a name that equals, ignoring
\* case, the name of another non-deleted item is answered 409 and changes
\* nothing; and a 409 is always due to another row, never to the item's own
\* name.
C11_UpdateDuplicateRejected ==
  [][RenamesActiveItem
       => /\ (\E r \in Active(menuItems) :
                 r.id # AnsweredId /\ SameIgnoringCase(r.name, SentName(response'.req)))
               => response'.status = 409 /\ menuItems' = menuItems
          /\ response'.status = 409
               => \E r \in menuItems :
                    /\ r.id # AnsweredId
                    /\ \/ r.name = SentName(response'.req)
                       \/ /\ r.deletedAt = NULL
                          /\ SameIgnoringCase(r.name, SentName(response'.req))
          /\ (\A r \in menuItems : r.id # AnsweredId
                 => ~SameIgnoringCase(r.name, SentName(response'.req)))
               => response'.status = 200]_vars

\* a rename refused because another visible item has the name in another case
C11_Witness ==
  /\ response.req.op = "PATCH /menu/:id"
  /\ response.status = 409
  /\ \E r \in Active(menuItems) : \E q \in Active(menuItems) :
       /\ q.id = ParseInt(response.req.param)
       /\ r.id # q.id
       /\ r.name # SentName(response.req)
       /\ SameIgnoringCase(r.name, SentName(response.req))

\* C12 (as claimed): a create succeeds whenever no non-deleted menu item has
\* the name ignoring case, whatever the soft-deleted items are called.
C12_CreateSucceedsWithoutActiveTwin ==
  [][(Answers("POST /menu")
        /\ CreateMenuItemOk(response'.req.body)
        /\ \A r \in Active(menuItems) :
             ~SameIgnoringCase(r.name, SentName(response'.req)))
       => /\ response'.status = 201
          /\ \E r \in Active(menuItems') :
               r.id \notin Ids(menuItems) /\ r.name = SentName(response'.req)]_vars

C14_UpdateSucceedsWithoutActiveTwin ==
  [][(RenamesActiveItem
        /\ \A r \in Active(menuItems) :
             r.id # AnsweredId => ~SameIgnoringCase(r.name, SentName(response'.req)))
       => /\ response'.status = 200
          /\ \E r \in Active(menuItems') :
               r.id = AnsweredId /\ r.name = SentName(response'.req)]_vars

\* the request just answered is a well-formed POST /special
CreatesSpecial ==
  Answers("POST /special") /\ CreateSpecialOk(response'.req.body)

\* the request just answered is a well-formed PATCH /special/:id that names
\* an ACTIVE special
UpdatesActiveSpecial ==
  /\ Answers("PATCH /special/:id")
  /\ IntValueOk(response'.req.param)
  /\ UpdateSpecialOk(response'.req.body)
  /\ AnsweredId \in Ids(Active(special))

\* the body sets is_active to v
SetsActive(req, v) == "is_active" \in DOMAIN req.body /\ req.body.is_active = v

\* in `rows`, the special `id` is active and no other non-deleted one is
OnlyActive(rows, id) ==
  \A r \in Active(rows) : r.is_active <=> r.id = id

\* every row of `before` other than `id` is in `after` with is_active false
\* and nothing else changed
OthersDeactivated(before, after, id) ==
  \A r \in before :
    r.id # id => [r EXCEPT !.is_active = FALSE] \in after

\* C15: a create with is_active = true leaves the new special active and
\* every other non-deleted special inactive.
C15_CreateActiveDeactivatesOthers ==
  [][(CreatesSpecial /\ SetsActive(response'.req, TRUE))
       => /\ response'.status = 201
          /\ specialSeq' \in Ids(Active(special'))
          /\ specialSeq' \notin Ids(special)
          /\ OnlyActive(special', specialSeq')]_vars

\* a create with is_active = true, answered while a special that was visible
\* and active before is still there
C15_Witness ==
  /\ response.req.op = "POST /special"
  /\ response.status = 201
  /\ SetsActive(response.req, TRUE)
  /\ Item.is_active
  /\ \E r \in trip.snap : r.id # Item.id /\ r.id \in Ids(Active(special))

\* C16: an update with is_active = true of an ACTIVE special leaves it active
\* and every other non-deleted special inactive, however many were active.
C16_UpdateActiveDeactivatesOthers ==
  [][(UpdatesActiveSpecial /\ SetsActive(response'.req, TRUE))
       => /\ response'.status = 200
          /\ AnsweredId \in Ids(Active(special'))
          /\ OnlyActive(special', AnsweredId)]_vars

\* such an update, answered when two specials were visible and active
C16_Witness ==
  /\ response.req.op = "PATCH /special/:id"
  /\ response.status = 200
  /\ SetsActive(response.req, TRUE)
  /\ Cardinality(trip.snap) >= 2
  /\ OnlyActive(special, ParseInt(response.req.param))

\* C17: a create with is_active = false, an update with is_active = false and
\* an update without is_active change no field of any other special.
C17_InactiveLeavesOthers ==
  [][/\ (CreatesSpecial /\ SetsActive(response'.req, FALSE))
          => response'.status = 201 /\ special \subseteq special'
     /\ (UpdatesActiveSpecial /\ ~SetsActive(response'.req, TRUE))
          => /\ response'.status = 200
             /\ \A r \in special : r.id # AnsweredId => r \in special']_vars

\* an update with is_active = false, answered while another special that was
\* visible and active before still is
C17_Witness ==
  /\ response.req.op = "PATCH /special/:id"
  /\ response.status = 200
  /\ SetsActive(response.req, FALSE)
  /\ \E r \in trip.snap :
       r.id # ParseInt(response.req.param) /\ r \in special /\ r.is_active

\* C18: a special created without is_active is stored active, and the other
\* specials are deactivated as by a create with is_active = true.
C18_CreateDefaultsActive ==
  [][(CreatesSpecial /\ "is_active" \notin DOMAIN response'.req.body)
       => /\ response'.status = 201
          /\ \E r \in special' : r.id = specialSeq' /\ r.is_active /\ r.deletedAt = NULL
          /\ Cardinality(special') = Cardinality(special) + 1
          /\ OthersDeactivated(special, special', specialSeq')]_vars

\* a create without is_active, answered while a special that was visible and
\* active before is still there, now inactive
C18_Witness ==
  /\ response.req.op = "POST /special"
  /\ response.status = 201
  /\ "is_active" \notin DOMAIN response.req.body
  /\ Item.is_active
  /\ \E r \in trip.snap : [r EXCEPT !.is_active = FALSE] \in special

\* C19: an update of a menu item or special that is soft-deleted or absent
\* is answered 404 and changes no row, also when it would set is_active.
C19_UpdateOfDeletedRejected ==
  [][/\ (Answers("PATCH /menu/:id")
           /\ IntValueOk(response'.req.param)
           /\ UpdateMenuItemOk(response'.req.body)
           /\ AnsweredId \notin Ids(Active(menuItems)))
          => /\ response'.status = 404
             /\ response'.body.error = "Item not found"
             /\ menuItems' = menuItems
     /\ (Answers("PATCH /special/:id")
           /\ IntValueOk(response'.req.param)
           /\ UpdateSpecialOk(response'.req.body)
           /\ AnsweredId \notin Ids(Active(special)))
          => /\ response'.status = 404
             /\ response'.body.error = "Special not found"
             /\ special' = special]_vars

\* is_active = true sent to a soft-deleted special, refused while another
\* special is visible and active
C19_Witness ==
  /\ response.req.op = "PATCH /special/:id"
  /\ response.status = 404
  /\ SetsActive(response.req, TRUE)
  /\ ParseInt(response.req.param) \in Ids(SoftDeleted(special))
  /\ \E r \in Active(special) : r.is_active

\* C20 (as claimed): every successful update of a menu item or of a special
\* sets the record's updatedAt to the time of the request.
C20_UpdateTouchesUpdatedAt ==
  [][/\ (Answers("PATCH /menu/:id") /\ response'.status = 200)
          => \E r \in menuItems' : r.id = AnsweredId /\ r.updatedAt = now
     /\ (Answers("PATCH /special/:id") /\ response'.status = 200)
          => \E r \in special' : r.id = AnsweredId /\ r.updatedAt = now]_vars


\* C21: the createdAt of a menu item or special is the same after every
\* request as before it, for as long as the row exists.
C21_CreatedAtImmutable ==
  [][/\ \A r \in menuItems : \A q \in menuItems' :
          q.id = r.id => q.createdAt = r.createdAt
     /\ \A r \in special : \A q \in special' :
          q.id = r.id => q.createdAt = r.createdAt]_vars

\* an item updated and then restored, both later than its create
C21_Witness ==
  /\ response.req.op = "POST /menu/:id/restore"
  /\ response.status = 200
  /\ Item.createdAt < Item.updatedAt
  /\ Item.name = <<"L", "A">>
  /\ Item.price = 400


\* C22: a successful soft delete sets deletedAt and updatedAt of the target to
\* the time of the request, answers with the row as it then is, and changes
\* no other field and no other row.
C22_SoftDeleteFrame ==
  [][/\ (Answers("DELETE /menu/:id") /\ response'.status = 200)
          => /\ \E r \in Active(menuItems) :
                  LET after == [r EXCEPT !.deletedAt = now, !.updatedAt = now]
                  IN /\ r.id = AnsweredId
                     /\ menuItems' = (menuItems \ {r}) \cup {after}
                     /\ response'.body.items = {after}
             /\ UNCHANGED <<menuSeq, special, specialSeq, hours>>
     /\ (Answers("DELETE /special/:id") /\ response'.status = 200)
          => /\ \E r \in Active(special) :
                  LET after == [r EXCEPT !.deletedAt = now, !.updatedAt = now]
                  IN /\ r.id = AnsweredId
                     /\ special' = (special \ {r}) \cup {after}
                     /\ response'.body.items = {after}
             /\ UNCHANGED <<menuItems, menuSeq, specialSeq, hours>>]_vars

\* an active special soft-deleted later than its create, beside another one
C22_Witness ==
  /\ response.req.op = "DELETE /special/:id"
  /\ response.status = 200
  /\ Item.is_active
  /\ Item.deletedAt = now
  /\ Item.createdAt < now
  /\ Item \in special
  /\ \E r \in special : r.id # Item.id

\* the request just answered is a well-formed request of route `op` for an id
\* that is not in `rows`
AsksForAbsent(op, rows) ==
  /\ Answers(op)
  /\ IntValueOk(response'.req.param)
  /\ AnsweredId \notin Ids(rows)

MenuIdRoutes == {"GET /menu/:id", "GET /menu/:id/description", "DELETE /menu/:id",
                 "POST /menu/:id/restore", "DELETE /menu/:id/hard-delete"}
SpecialIdRoutes == {"GET /specials/:id", "DELETE /special/:id",
                    "POST /special/:id/restore", "DELETE /special/:id/hard-delete"}

\* C23: a hard delete of a SOFT_DELETED row removes it and answers with the
\* row as it was; the id is never given to another row, and every get,
\* update, soft delete, restore and hard delete of an absent id is answered
\* 404 and changes nothing.
C23_HardDeleteThenGone ==
  [][/\ (Answers("DELETE /menu/:id/hard-delete")
           /\ IntValueOk(response'.req.param)
           /\ AnsweredId \in Ids(SoftDeleted(menuItems)))
          => \E r \in SoftDeleted(menuItems) :
               /\ r.id = AnsweredId
               /\ response'.status = 200
               /\ response'.body.items = {r}
               /\ menuItems' = menuItems \ {r}
     /\ (Answers("DELETE /special/:id/hard-delete")
           /\ IntValueOk(response'.req.param)
           /\ AnsweredId \in Ids(SoftDeleted(special)))
          => \E r \in SoftDeleted(special) :
               /\ r.id = AnsweredId
               /\ response'.status = 200
               /\ response'.body.items = {r}
               /\ special' = special \ {r}
     /\ \A id \in 1..menuSeq : id \notin Ids(menuItems) => id \notin Ids(menuItems')
     /\ \A id \in 1..specialSeq : id \notin Ids(special) => id \notin Ids(special')
     /\ \A op \in MenuIdRoutes :
          AsksForAbsent(op, menuItems)
            => response'.status = 404 /\ menuItems' = menuItems
     /\ (AsksForAbsent("PATCH /menu/:id", menuItems)
           /\ UpdateMenuItemOk(response'.req.body))
          => response'.status = 404 /\ menuItems' = menuItems
     /\ \A op \in SpecialIdRoutes :
          AsksForAbsent(op, special)
            => response'.status = 404 /\ special' = special
     /\ (AsksForAbsent("PATCH /special/:id", special)
           /\ UpdateSpecialOk(response'.req.body))
          => response'.status = 404 /\ special' = special]_vars

\* a restore asked for an item that was hard-deleted, while another item exists
C23_Witness ==
  /\ response.req.op = "POST /menu/:id/restore"
  /\ response.status = 404
  /\ ParseInt(response.req.param) \in 1..menuSeq
  /\ ParseInt(response.req.param) \notin Ids(menuItems)
  /\ menuItems # {}


\* C24 (as claimed): every special that has both valid_from and valid_to has
\* valid_from before valid_to.
C24_DatesOrdered ==
  \A r \in special :
    (r.valid_from # NULL /\ r.valid_to # NULL) => r.valid_from < r.valid_to


\* day values of the requests: those the validator must accept, and those it
\* must refuse (hour 13 with am, plain text, blank, longer than 50 characters)
GoodDayValues == {NineToFive, SevenToSeven, AllDay}
BadDayValues == {ThirteenAm, RandomText, <<" ">>, LongClosed}

\* the days a request body supplies
SuppliedDays(req) == DOMAIN req.body \cap DayNames

\* the request just answered is a PATCH /hours that supplies at least one
\* day, and only valid values
PatchesHoursValidly ==
  /\ Answers("PATCH /hours")
  /\ SuppliedDays(response'.req) # {}
  /\ \A d \in SuppliedDays(response'.req) : response'.req.body[d] \in GoodDayValues

\* C25: a valid PATCH /hours on an empty table is answered 201 and inserts one
\* record: every supplied day has the supplied value (trimmed), every other
\* day is "Closed".
C25_FirstPatchCreates ==
  [][(PatchesHoursValidly /\ hours = {})
       => /\ response'.status = 201
          /\ Cardinality(hours') = 1
          /\ response'.body.items = hours'
          /\ \A r \in hours' : \A d \in DayNames :
               r[d] = IF d \in SuppliedDays(response'.req)
                        THEN Trim(response'.req.body[d])
                        ELSE <<"C", "l", "o", "s", "e", "d">>]_vars

\* the record created from a padded monday and a friday
C25_Witness ==
  /\ response.req.op = "PATCH /hours"
  /\ response.status = 201
  /\ SuppliedDays(response.req) = {"monday", "friday"}
  /\ Item \in hours
  /\ Item.monday = Trim(SevenToSeven)
  /\ Item.monday # response.req.body.monday
  /\ Item.friday = NineToFive
  /\ Item.sunday = <<"C", "l", "o", "s", "e", "d">>

\* C26: a valid PATCH /hours on an existing record is answered 200, sets the
\* supplied days to the supplied values (trimmed) and leaves the other days
\* and the id as they were.
C26_LaterPatchMerges ==
  [][(PatchesHoursValidly /\ hours # {})
       => /\ response'.status = 200
          /\ Cardinality(hours') = Cardinality(hours)
          /\ response'.body.items = hours'
          /\ \A r \in hours : \E q \in hours' :
               /\ q.id = r.id
               /\ \A d \in DayNames :
                    q[d] = IF d \in SuppliedDays(response'.req)
                             THEN Trim(response'.req.body[d])
                             ELSE r[d]]_vars

\* friday alone is sent to a record whose monday and sunday were set before
C26_Witness ==
  /\ response.req.op = "PATCH /hours"
  /\ response.status = 200
  /\ SuppliedDays(response.req) = {"friday"}
  /\ Item \in hours
  /\ Item.monday = NineToFive
  /\ Item.sunday = AllDay
  /\ Item.friday = Trim(SevenToSeven)
  /\ Item.tuesday = <<"C", "l", "o", "s", "e", "d">>

\* C27: there is at most one store_hours record.
C27_OneHoursRecord == Cardinality(hours) <= 1

\* a PATCH /hours answered as an update of the one record
C27_Witness ==
  /\ response.req.op = "PATCH /hours"
  /\ response.status = 200
  /\ Cardinality(hours) = 1
  /\ Item \in hours

\* C28: a PATCH /hours that supplies no day, or a day with an invalid value,
\* is answered 400 and leaves store_hours as it was.
C28_BadPatchRejected ==
  [][(Answers("PATCH /hours")
        /\ \/ SuppliedDays(response'.req) = {}
           \/ \E d \in SuppliedDays(response'.req) :
                response'.req.body[d] \in BadDayValues)
       => /\ response'.status = 400
          /\ hours' = hours]_vars

\* a valid monday sent together with an invalid friday: monday is not applied
C28_Witness ==
  /\ response.req.op = "PATCH /hours"
  /\ response.status = 400
  /\ SuppliedDays(response.req) = {"monday", "friday"}
  /\ response.req.body.monday \in GoodDayValues
  /\ response.req.body.friday \in BadDayValues
  /\ \E r \in hours : r.monday # Trim(response.req.body.monday)

\* minutes that are absent or in 0..59
MinutesInRange(m) == m = NoMinutes \/ m \in 0..59

IdRoutes == MenuIdRoutes \cup SpecialIdRoutes \cup {"PATCH /menu/:id", "PATCH /special/:id"}

\* the request has an id that is not a number, a name or price parameter out
\* of bounds, or a body that its route's schema refuses
Malformed(req) ==
  \/ req.op \in IdRoutes \ {"POST /special/:id/restore"} /\ req.param = BadIdParam
  \/ req.op = "GET /menu/name/:coffeeName" /\ req.param = BadName
  \/ req.op = "GET /menu/price/:maxPrice" /\ req.param = <<"0">>
  \/ req.op = "POST /menu" /\ req.body \in BadMenuCreateBodies
  \/ req.op = "PATCH /menu/:id" /\ req.body \in BadMenuUpdateBodies
  \/ req.op = "POST /special" /\ req.body \in BadSpecialCreateBodies
  \/ req.op = "PATCH /special/:id" /\ req.body \in BadSpecialUpdateBodies
  \/ req.op = "PATCH /hours" /\ req.body \in BadHoursBodies

\* C29: a malformed request is answered 400 "Validation failed", and a
\* request answered so writes nothing: menu_items, daily_special (is_active
\* included), store_hours and the id sequences are as before.
C29_ShapeViolationWritesNothing ==
  [][/\ Malformed(response'.req)
          => response'.status = 400 /\ response'.body.error = "Validation failed"
     /\ (response'.status = 400 /\ response'.body.error = "Validation failed")
          => UNCHANGED <<menuItems, menuSeq, special, specialSeq, hours>>]_vars

\* is_active = true with a price of 0 sent to the inactive special 1, refused
\* while special 2 is active and the other tables have rows
C29_Witness ==
  /\ response.req.op = "PATCH /special/:id"
  /\ response.status = 400
  /\ response.req.param = IdStr(1)
  /\ response.req.body = [is_active |-> TRUE, price |-> 0]
  /\ \E r \in Active(special) : r.id = 1 /\ ~r.is_active
  /\ \E r \in Active(special) : r.id = 2 /\ r.is_active
  /\ menuItems # {}
  /\ hours # {}

\* `stored` is `sent` without the blanks at its two ends, character for
\* character
TrimmedVerbatim(sent, stored) ==
  /\ stored # <<>>
  /\ stored[1] # " "
  /\ stored[Len(stored)] # " "
  /\ \E i \in 0..Len(sent) :
       /\ i + Len(stored) <= Len(sent)
       /\ \A k \in 1..Len(sent) :
            IF k > i /\ k <= i + Len(stored)
              THEN sent[k] = stored[k - i]
              ELSE sent[k] = " "

\* C31: after a successful PATCH /hours the stored day is the string that
\* was sent without its leading and trailing blanks, and otherwise the same
\* characters: the case of the letters, the separator and the notation are
\* as sent.  The response carries the stored record.
C31_StoredTrimmedVerbatim ==
  [][(Answers("PATCH /hours") /\ response'.status \in {200, 201})
       => /\ response'.body.items = hours'
          /\ \A r \in hours' : \A d \in SuppliedDays(response'.req) :
               TrimmedVerbatim(response'.req.body[d], r[d])]_vars

\* "  6 P.M. TO 8 P.M. " is stored as "6 P.M. TO 8 P.M."
C31_Witness ==
  /\ response.req.op = "PATCH /hours"
  /\ response.status = 200
  /\ response.req.body.monday =
       <<" ", " ", "6", " ", "P", ".", "M", ".", " ", "T", "O", " ", "8", " ", "P", ".", "M", ".", " ">>
  /\ Item \in hours
  /\ Item.monday = <<"6", " ", "P", ".", "M", ".", " ", "T", "O", " ", "8", " ", "P", ".", "M", ".">>

\* C40: a day value is accepted whenever the text between its leading and
\* trailing blanks has at most 50 characters and is in a valid format,
\* however many blanks there are around it.
C40_PaddingIrrelevant ==
  response.req.op = "PATCH /hours"
    => \A t \in trip.snap :
         (t.kind = "padded" /\ Len(t.text) <= HoursMax /\ IsValidHoursFormat(t.text))
           => response.status # 400

\* the rows that the step just taken added to `after`
Created(before, after) == {r \in after : r.id \notin Ids(before)}

\* C32: a successful create adds one row, and the id of that row is greater
\* than every id assigned to a row of the same table before, whether that
\* row is still there, soft-deleted or hard-deleted; this holds for menu
\* items and for specials.
C32_IdsIncrease ==
  [][/\ (Answers("POST /menu") /\ response'.status = 201)
          => /\ Cardinality(Created(menuItems, menuItems')) = 1
             /\ \A r \in Created(menuItems, menuItems') :
                  \A a \in AssignedIds("POST /menu") : r.id > a
     /\ (Answers("POST /special") /\ response'.status = 201)
          => /\ Cardinality(Created(special, special')) = 1
             /\ \A r \in Created(special, special') :
                  \A a \in AssignedIds("POST /special") : r.id > a]_vars

\* a menu item created with id 2 after item 1 was hard-deleted and the table
\* was empty
C32_Witness ==
  /\ response.req.op = "POST /menu"
  /\ response.status = 201
  /\ AssignedIds("POST /menu") = {1, 2}
  /\ Ids(menuItems) = {2}

\* C33: a create or an update that sets is_active to true leaves every
\* soft-deleted special as it was, is_active included.
C33_ActivationSparesDeleted ==
  [][(/\ response'.status \in {200, 201}
      /\ \/ CreatesSpecial /\ ~SetsActive(response'.req, FALSE)
         \/ UpdatesActiveSpecial /\ SetsActive(response'.req, TRUE))
       => SoftDeleted(special) \subseteq special']_vars

\* C34: a soft delete or a hard delete of a special, whatever its answer,
\* leaves the is_active value of every special that is in the table after it
\* as it was: the deleted one keeps its value, and no other one is activated
\* or deactivated.
C34_DeleteKeepsActiveFlags ==
  [][(Answers("DELETE /special/:id") \/ Answers("DELETE /special/:id/hard-delete"))
       => /\ Ids(special') \subseteq Ids(special)
          /\ \A r \in special : \A q \in special' :
               q.id = r.id => q.is_active = r.is_active]_vars

\* the active special is soft-deleted while an inactive one remains: after
\* it no special that is not deleted is active
C34_Witness ==
  /\ response.req.op = "DELETE /special/:id"
  /\ response.status = 200
  /\ Item \in special
  /\ Item.is_active
  /\ Active(special) # {}
  /\ \A r \in Active(special) : ~r.is_active

WouldDuplicate(f) ==
  \/ /\ f.req.op = "POST /menu"
     /\ f.pc = "insert"
     /\ \E r \in menuItems : r.name = Trim(f.req.body.name)
  \/ /\ f.req.op = "PATCH /menu/:id"
     /\ f.pc = "update"
     /\ "name" \in DOMAIN f.req.body
     /\ \E r \in menuItems : r.id = ParseInt(f.req.param)
     /\ \E r \in menuItems :
          r.id # ParseInt(f.req.param) /\ r.name = Trim(f.req.body.name)

\* C36: with the store statements of menu creates and updates interleaved in
\* any order, no two menu_items rows have the same name, and a request whose
\* insert or update would give a second row the same name is answered 409 at
\* that statement and writes nothing.
C36_RaceCaughtByIndex ==
  [][/\ \A a \in menuItems' : \A b \in menuItems' : a.id # b.id => a.name # b.name
     /\ \A f \in trip.snap :
          (WouldDuplicate(f) /\ f \notin trip'.snap)
            => /\ \E g \in trip'.snap :
                    g.rid = f.rid /\ g.pc = "done" /\ g.reply.status = 409
               /\ response'.status = 409
               /\ UNCHANGED <<menuItems, menuSeq>>]_vars

\* two creates of "La" passed their duplicate checks; one inserted and was
\* answered 201, the other one was answered 409 at its insert
C36_Witness ==
  \E f \in trip.snap : \E g \in trip.snap :
    /\ f.rid # g.rid
    /\ f.req.op = "POST /menu" /\ g.req.op = "POST /menu"
    /\ f.req.body.name = <<"L", "a">> /\ g.req.body.name = <<"L", "a">>
    /\ f.pc = "done" /\ f.at = "fetch" /\ f.reply.status = 201
    /\ g.pc = "done" /\ g.at = "insert" /\ g.reply.status = 409
    /\ Cardinality({r \in menuItems : r.name = <<"L", "a">>}) = 1

\* C37: the record that a successful POST /special returns is the row that
\* the same request inserted: it has the rowid of the request's insert, which
\* no other request was given, and the name, price, description and
\* is_active of the request (is_active true when it was not sent), also when
\* other creates had arrived before the reply.
C37_CreateReturnsOwnRow ==
  \A f \in trip.snap :
    (f.req.op = "POST /special" /\ f.pc = "done" /\ f.reply.status = 201)
      => /\ Cardinality(f.reply.body.items) = 1
         /\ \A r \in f.reply.body.items :
              /\ r.id = f.rowid
              /\ r.name = Trim(f.req.body.name)
              /\ r.price = f.req.body.price
              /\ r.description = Trim(f.req.body.description)
              /\ r.is_active = IF "is_active" \in DOMAIN f.req.body
                                 THEN f.req.body.is_active ELSE TRUE
         /\ \A g \in trip.snap : g.rid # f.rid => g.rowid # f.rowid

\* the create that arrived second was handled first and got row 1, while the
\* create that arrived first was waiting; then that one got row 2
C37_Witness ==
  \E f \in trip.snap : \E g \in trip.snap :
    /\ f.rid = 1 /\ g.rid = 2
    /\ f.req.op = "POST /special" /\ g.req.op = "POST /special"
    /\ f.req.body.name # g.req.body.name
    /\ g.pc = "done" /\ g.reply.status = 201 /\ g.rowid = 1
    /\ f.pc = "done" /\ f.reply.status = 201 /\ f.rowid = 2
    /\ \E r \in f.reply.body.items : r.id = 2 /\ r.name = f.req.body.name

\* C38: POST /menu/:id/restore for a soft-deleted menu item is answered 200
\* and makes the item active, whatever the names of the other items are.
C38_RestoreAlwaysSucceeds ==
  [][(/\ Answers("POST /menu/:id/restore")
      /\ IntValueOk(response'.req.param)
      /\ AnsweredId \in Ids(SoftDeleted(menuItems)))
       => /\ response'.status = 200
          /\ AnsweredId \in Ids(Active(menuItems'))
          /\ \A r \in response'.body.items : r.id = AnsweredId /\ r.deletedAt = NULL]_vars

\* an item restored while another active item has its name in another case
C38_Witness ==
  /\ response.req.op = "POST /menu/:id/restore"
  /\ response.status = 200
  /\ Item \in menuItems
  /\ \E r \in Active(menuItems) :
       r.id # Item.id /\ r.name # Item.name /\ SameIgnoringCase(r.name, Item.name)

\* C39: store_hours is empty until a PATCH /hours is answered 200 or 201 and
\* never empty after it, whatever requests follow on any route; GET /hours is
\* answered 404 when the table is empty and 200 with the record otherwise.
C39_HoursReadableOnceCreated ==
  [][/\ Answers("GET /hours")
          => IF hours = {}
               THEN response'.status = 404
               ELSE response'.status = 200 /\ response'.body.items \subseteq hours
     /\ (hours = {} /\ hours' # {})
          => Answers("PATCH /hours") /\ response'.status = 201
     /\ (Answers("PATCH /hours") /\ response'.status \in {200, 201})
          => hours' # {}
     /\ hours # {} => hours' # {}]_vars

\* the hours are read after they were created and after a menu item and a
\* special were soft-deleted
C39_Witness ==
  /\ response.req.op = "GET /hours"
  /\ response.status = 200
  /\ Item \in hours
  /\ SoftDeleted(menuItems) # {}
  /\ SoftDeleted(special) # {}

====
